---- MODULE Spec2Model ----
(***************************************************************************)
(* A model of aimy_target_shooting: the trajectory containers              *)
(* (custom_types.py), the signal filters (filtering.py), the hit point     *)
(* detector (hitpoint_detection.py) and the hit point post-processing      *)
(* (hitpoint_utils.py).                                                     *)
(*                                                                         *)
(* Numbers.  The program computes with floats; the model computes with     *)
(* integers in fixed units (lengths in centimetres, times in sampling      *)
(* ticks), which is exact for every comparison and subtraction modelled.   *)
(* An average of w values is kept as the pair (sum, w) or compared after   *)
(* multiplying through by w.                                                *)
(*                                                                         *)
(* Python's None is the empty sequence <<>>, a present value v is <<v>>.   *)
(* Python list indices are 0-based; a TLA+ sequence s holds the Python     *)
(* element s[i] at position i + 1.  Stored index VALUES stay 0-based.      *)
(***************************************************************************)
EXTENDS Integers, Sequences, FiniteSets, TLC

VARIABLES
    \* --- recording (custom_types.TrajectoryData) ---
    td,             \* the TrajectoryData object being recorded
    observations,   \* history: the observations handed to append_sample since
                    \* the object was created or last reset
    td_copy,        \* the last TrajectoryData(td) made, or None: the object
                    \* made, and history: td as it was handed in
    \* --- preprocessing pipeline (filtering.py) ---
    collection,     \* the TrajectoryCollection the caller holds now (its content)
    stage_input,    \* the collection handed to the last stage
    stage,          \* the last stage called: its name, arguments, and whether
                    \* it raised
    \* --- hit point detection (hitpoint_detection.py) ---
    detector_call,  \* the last HitPointDetection(...) call: how the axis was
                    \* given, the configuration read, and how the call ended
    detector,       \* the attributes of the HitPointDetection object, or
                    \* None while none is constructed
    evaluation,     \* the last evaluate_hitpoints call: the trajectory handed
                    \* in and what came back
    \* --- objects and references (custom_types.TrajectoryCollection) ---
    trajectories,   \* the TrajectoryData objects alive: object id -> content
    caller_collections, \* the caller's variables a and b: the list _collection
                    \* (of object ids) of the TrajectoryCollection each holds
    caller_trajectory,  \* the caller's variable t: the TrajectoryData it refers to
    called,         \* the last call: its name, variables, arguments, outcome
    \* --- persistence (export_tools.py) ---
    storage         \* the HDF5 file and the CSV directory the caller exports
                    \* to, and history: the collection exported to each

recordingVars == <<td, observations, td_copy>>

pipelineVars == <<collection, stage_input, stage>>

detectionVars == <<detector_call, detector, evaluation>>

memoryVars == <<trajectories, caller_collections, caller_trajectory, called>>

storageVars == <<storage>>

vars == <<td, observations, td_copy, collection, stage_input, stage,
          detector_call, detector, evaluation,
          trajectories, caller_collections, caller_trajectory, called, storage>>

(***************************************************************************)
(* Generic helpers                                                         *)
(***************************************************************************)
None == <<>>

Some(v) == <<v>>

Abs(x) == IF x < 0 THEN -x ELSE x

Range(s) == {s[i] : i \in 1..Len(s)}

\* What an operation on one trajectory gives: [ok |-> FALSE] when the program
\* raises there, else [ok |-> TRUE, t |-> the trajectory it leaves].
Raised == [ok |-> FALSE]

Ok(t) == [ok |-> TRUE, t |-> t]

\* All sequences over S of length at most n.
SeqsUpTo(S, n) == UNION {[1..k -> S] : k \in 0..n}

\* Python `del s[idx]` for a 0-based idx that is in range.
DelAt(s, idx) == [i \in 1..(Len(s) - 1) |-> IF i <= idx THEN s[i] ELSE s[i + 1]]

\* No HDF5 file, an empty CSV directory, nothing exported yet.
NoStorage ==
    [hdf5 |-> None, csv |-> <<>>, exported_hdf5 |-> None, exported_csv |-> None]

StorageIdle == storage = NoStorage

(***************************************************************************)
(* custom_types.TrajectoryCollection: objects and references                *)
(*                                                                         *)
(* A TrajectoryData object is an object id; objs maps each id to <<c>>, c   *)
(* the content of the object (its samples and annotations, taken together), *)
(* or to None while no object has that id.  The list _collection of a       *)
(* TrajectoryCollection is a sequence of object ids.                        *)
(***************************************************************************)
\* Contents: 0 is a TrajectoryData as created, 1 one that was written to.
Contents == {0, 1}

ObjIds == {1, 2, 3}

\* The caller's TrajectoryCollection variables.
CollVars == {"a", "b"}

MemoryIdle ==
    /\ trajectories = [o \in ObjIds |-> None]
    /\ caller_collections = [x \in CollVars |-> None]
    /\ caller_trajectory = None
    /\ called = [name |-> "none"]

FreeIds(objs) == {o \in ObjIds : objs[o] = None}

\* The k smallest ids of S, ascending.
RECURSIVE TakeSmallest(_, _)
TakeSmallest(S, k) ==
    IF k = 0 THEN <<>>
    ELSE LET m == CHOOSE m \in S : \A n \in S : m <= n
         IN  <<m>> \o TakeSmallest(S \ {m}, k - 1)

\* The elements of s without repetition, in the order of their first occurrence.
RECURSIVE Distinct(_)
Distinct(s) ==
    IF s = <<>> THEN <<>>
    ELSE LET d == Distinct(SubSeq(s, 1, Len(s) - 1))
         IN  IF s[Len(s)] \in Range(d) THEN d ELSE Append(d, s[Len(s)])

IndexOf(s, v) == CHOOSE i \in 1..Len(s) : s[i] = v

\* There is room for a deep copy of the list items.
CanCopy(objs, items) == Cardinality(FreeIds(objs)) >= Len(Distinct(items))

\* copy.deepcopy(items) for a list of TrajectoryData objects: one new object
\* with the same content for every object of the list (an object that occurs
\* twice is copied once: deepcopy's memo), and the list of the new objects.
copy_deepcopy(objs, items) ==
    LET originals == Distinct(items)
        copies == TakeSmallest(FreeIds(objs), Len(originals))
    IN  [objects |-> [o \in ObjIds |->
                        IF o \in Range(copies)
                        THEN objs[originals[IndexOf(copies, o)]] ELSE objs[o]],
         list |-> [i \in 1..Len(items) |-> copies[IndexOf(originals, items[i])]]]

\* A slip of a copy: the new list holds the objects of the old one.
copy_shallow(objs, items) == [objects |-> objs, list |-> items]

\* TrajectoryCollection.__init__ with a list or a collection's list, lines
\* 179-184: the new object's _collection.
TrajectoryCollection_init(objs, items) == copy_deepcopy(objs, items)

\* Python items[start:stop] for 0 <= start, 0 <= stop.
PySlice(items, start, stop) ==
    SubSeq(items, start + 1, IF stop < Len(items) THEN stop ELSE Len(items))

\* A slip of __getitem__: the slice is wrapped without being copied.
TrajectoryCollection_getitem_view(objs, items, start, stop) ==
    copy_shallow(objs, PySlice(items, start, stop))

\* TrajectoryCollection.__getitem__, lines 211-214: collection[start:stop];
\* collection[index] is the same with the list [items[index]].
TrajectoryCollection_getitem(objs, items, start, stop) ==
    TrajectoryCollection_init(objs, PySlice(items, start, stop))

\* A slip of deepcopy: copy.copy in place of copy.deepcopy.
TrajectoryCollection_copy(objs, items) == copy_shallow(objs, items)

\* TrajectoryCollection.deepcopy, line 284: a collection is built from the
\* list, and that collection is deep-copied; the collection built first is
\* dropped on return.
TrajectoryCollection_deepcopy(objs, items) ==
    LET built == TrajectoryCollection_init(objs, items)
        copied == copy_deepcopy(built.objects, built.list)
    IN  [objects |-> [o \in ObjIds |->
                        IF o \in Range(built.list) THEN None ELSE copied.objects[o]],
         list |-> copied.list]

\* TrajectoryCollection.deepcopy needs room for two copies of the list.
CanDeepcopy(objs, items) == Cardinality(FreeIds(objs)) >= 2 * Len(Distinct(items))

\* The objects stored in the collection the variable x holds.
Stored(colls, x) == IF colls[x] = None THEN {} ELSE Range(colls[x][1])

\* The objects some variable of the caller leads to.
Referenced(colls, t) == UNION {Stored(colls, x) : x \in CollVars} \cup Range(t)

\* Reference counting: an object no variable leads to is freed.
Collect(objs, colls, t) ==
    [o \in ObjIds |-> IF o \in Referenced(colls, t) THEN objs[o] ELSE None]

(***************************************************************************)
(* scipy.signal.find_peaks(x, height = h, distance = d), as the program     *)
(* calls it: x a sequence of numbers, h a lower bound on the peak height,   *)
(* d >= 1 the least number of samples between two kept peaks.  Peak indices *)
(* are 0-based, as in the program.                                          *)
(***************************************************************************)
\* _local_maxima_1d, inner loop: the first i_ahead >= a (0-based) that is the
\* last index or whose value differs from the plateau value v.
RECURSIVE PlateauEnd(_, _, _)
PlateauEnd(x, a, v) ==
    IF a < Len(x) - 1 /\ x[a + 1] = v THEN PlateauEnd(x, a + 1, v) ELSE a

\* _local_maxima_1d, outer loop from the 0-based index i: the midpoints of the
\* strict local maxima (plateaus included); the first and the last sample are
\* never peaks.
RECURSIVE LocalMaximaFrom(_, _)
LocalMaximaFrom(x, i) ==
    IF i >= Len(x) - 1
    THEN <<>>
    ELSE IF x[i] < x[i + 1]
         THEN LET ahead == PlateauEnd(x, i + 1, x[i + 1])
              IN  IF x[ahead + 1] < x[i + 1]
                  THEN <<(i + (ahead - 1)) \div 2>> \o LocalMaximaFrom(x, ahead + 1)
                  ELSE LocalMaximaFrom(x, i + 1)
         ELSE LocalMaximaFrom(x, i + 1)

LocalMaxima(x) == LocalMaximaFrom(x, 1)

\* The position (1-based, in peaks) handled next by _select_by_peak_distance:
\* the highest priority first; among equal priorities the later peak first
\* (argsort of a short array is a stable insertion sort, read from its end).
NextByPriority(prio, R) ==
    CHOOSE j \in R : \A k \in R :
        prio[k] < prio[j] \/ (prio[k] = prio[j] /\ k <= j)

\* _select_by_peak_distance: keep is the flag array, R the positions not
\* handled yet.
RECURSIVE SelectByDistance(_, _, _, _, _)
SelectByDistance(peaks, prio, d, keep, R) ==
    IF R = {} THEN keep
    ELSE LET j == NextByPriority(prio, R)
             k2 == IF keep[j]
                   THEN [k \in DOMAIN keep |->
                           IF k # j /\ Abs(peaks[k] - peaks[j]) < d
                           THEN FALSE ELSE keep[k]]
                   ELSE keep
         IN  SelectByDistance(peaks, prio, d, k2, R \ {j})

\* The subsequence of s at the positions where keep holds.
RECURSIVE KeepWhere(_, _, _)
KeepWhere(s, keep, i) ==
    IF i > Len(s) THEN <<>>
    ELSE (IF keep[i] THEN <<s[i]>> ELSE <<>>) \o KeepWhere(s, keep, i + 1)

find_peaks(x, height, distance) ==
    LET maxima == LocalMaxima(x)
        high == KeepWhere(maxima, [i \in 1..Len(maxima) |-> x[maxima[i] + 1] >= height], 1)
        prio == [i \in 1..Len(high) |-> x[high[i] + 1]]
        keep == SelectByDistance(high, prio, distance,
                                 [i \in 1..Len(high) |-> TRUE], 1..Len(high))
    IN  KeepWhere(high, keep, 1)

(***************************************************************************)
(* Bounds of the recording model                                            *)
(***************************************************************************)
\* Observations fed to one trajectory between two resets.
MaxObservations == 3

\* Largest time stamp the motion capture delivers (ticks).
MaxTime == 2

\* Ball ids: negative is the "ball not detected" sentinel.
BallIds == {-1, 0, 1}

RecPositions == {<<0, 0, 100>>, <<10, 0, 76>>}

RecVelocity == <<1, 0, -1>>

(***************************************************************************)
(* custom_types.TrajectoryData                                              *)
(***************************************************************************)
\* TrajectoryData(): the state after construction without a template.
NewTrajectoryData ==
    [start_time |-> None, time_stamps |-> <<>>, positions |-> <<>>,
     velocities |-> <<>>, launch_param |-> <<>>]

RecordingIdle ==
    /\ td = NewTrajectoryData
    /\ observations = <<>>
    /\ td_copy = None

\* TrajectoryData.__init__, lines 23-42; trajectory_data is None or Some(t).
\* `if trajectory_data:` asks __len__ (lines 55-62), the number of positions.
\* The lists are copied with .copy(), the launch parameters are taken as
\* they are, the start time is not taken.
TrajectoryData_init(trajectory_data) ==
    IF trajectory_data # None /\ Len(trajectory_data[1].positions) # 0
    THEN [start_time |-> None,
          time_stamps |-> trajectory_data[1].time_stamps,
          positions |-> trajectory_data[1].positions,
          velocities |-> trajectory_data[1].velocities,
          launch_param |-> trajectory_data[1].launch_param]
    ELSE [start_time |-> None, time_stamps |-> <<>>, positions |-> <<>>,
          velocities |-> <<>>, launch_param |-> <<>>]

\* TrajectoryData.set_launch_param
set_launch_param(t, value) == [t EXCEPT !.launch_param = value]

\* TrajectoryData.reset
reset(t) ==
    [t EXCEPT !.start_time = None, !.time_stamps = <<>>, !.positions = <<>>,
              !.velocities = <<>>]

\* A slip of append_sample: the start time is latched before the id is looked at.
append_sample_latch_first(t, ball_id, time_stamp, position, velocity) ==
    LET st == IF t.start_time = None THEN Some(time_stamp) ELSE t.start_time
    IN  IF ball_id >= 0
        THEN [t EXCEPT !.start_time = st,
                       !.time_stamps = Append(@, time_stamp - st[1]),
                       !.positions = Append(@, position),
                       !.velocities = IF velocity # None
                                      THEN Append(@, velocity[1]) ELSE @]
        ELSE [t EXCEPT !.start_time = st]

\* TrajectoryData.append_sample; velocity is None or Some(v).
append_sample(t, ball_id, time_stamp, position, velocity) ==
    IF ball_id >= 0
    THEN LET st == IF t.start_time = None THEN Some(time_stamp) ELSE t.start_time
         IN  [t EXCEPT !.start_time = st,
                       !.time_stamps = Append(@, time_stamp - st[1]),
                       !.positions = Append(@, position),
                       !.velocities = IF velocity # None
                                      THEN Append(@, velocity[1]) ELSE @]
    ELSE t

(***************************************************************************)
(* hitpoint_detection.HitPointDetection: construction                       *)
(***************************************************************************)
\* self.TABLE_HEIGHT = 0.76, in cm.
TABLE_HEIGHT == 76

DetectionIdle ==
    /\ detector_call = None
    /\ detector = None
    /\ evaluation = None

\* An argument of __init__ given as None is read from the configuration file.
Resolve(argument, configured) ==
    IF argument = None THEN configured ELSE argument[1]

\* The attributes __init__ stores, lines 71-132.
ResolvedAttributes(args, config) ==
    [error |-> "none",
     axis |-> Resolve(args.axis, config.axis),
     distance |-> Resolve(args.distance, config.distance),
     position_threshold |->
         Resolve(args.position_threshold, config.position_threshold),
     acceleration_threshold |->
         Resolve(args.acceleration_threshold, config.acceleration_threshold),
     polynom_order |-> Resolve(args.polynom_order, config.polynom_order),
     use_windows |-> Resolve(args.use_windows, config.use_windows),
     window_size |-> Resolve(args.window_size, config.window_size),
     root_eval_radius |-> Resolve(args.root_eval_radius, config.root_eval_radius),
     position_based_indices |->
         Resolve(args.position_based_discontinuities, config.position_based_indices),
     regression |-> Resolve(args.rebound_regression, config.regression)]

\* HitPointDetection.__init__, lines 71-132: the attributes of the new object,
\* or the ValueError raised.  The axis is validated only on the branch that
\* reads it from the configuration (lines 71-77); the window size is compared
\* with the polynom order whatever their origin (lines 114-117).
HitPointDetection_init(args, config) ==
    IF args.axis = None /\ config.axis \notin {0, 1, 2}
    THEN [error |-> "ValueError"]
    ELSE IF Resolve(args.window_size, config.window_size)
              < Resolve(args.polynom_order, config.polynom_order)
         THEN [error |-> "ValueError"]
         ELSE ResolvedAttributes(args, config)

(***************************************************************************)
(* hitpoint_detection.HitPointDetection: detection in height mode           *)
(*                                                                         *)
(* An evaluated trajectory is the trajectory with the attributes the        *)
(* detector sets on it: attrs names the attributes set so far.              *)
(***************************************************************************)
Unannotated(t) ==
    t @@ [attrs |-> {}, axis |-> None, discontinuity_indices |-> <<>>,
          approximation_indices |-> <<>>, hitpoints |-> <<>>,
          hitpoint_time_stamps |-> <<>>]

\* _extract_discontinuities_by_position, lines 224-238: positions[:, 2] raises
\* on the array of an empty trajectory; otherwise the peaks of
\* -(z - TABLE_HEIGHT).
extract_discontinuities_by_position(t, hpd) ==
    IF t.positions = <<>> THEN Raised
    ELSE LET positions_axis ==
                 [i \in 1..Len(t.positions) |-> -(t.positions[i][3] - TABLE_HEIGHT)]
         IN  Ok([t EXCEPT
                   !.attrs = @ \cup {"discontinuity_indices"},
                   !.discontinuity_indices =
                       find_peaks(positions_axis, hpd.position_threshold, hpd.distance)])

\* np.gradient(f, x) for samples x at a constant spacing h, times 2h: central
\* differences inside, one-sided differences at the two ends.
Gradient2h(f) ==
    [i \in 1..Len(f) |->
        IF i = 1 THEN 2 * (f[2] - f[1])
        ELSE IF i = Len(f) THEN 2 * (f[i] - f[i - 1])
             ELSE f[i + 1] - f[i - 1]]

\* _extract_discontinuities_by_acceleration, lines 244-258, for time stamps at
\* a constant spacing h: the peaks of the second gradient.  The model works
\* with 4 h^2 times the acceleration, and compares with 4 h^2 times the
\* threshold.  positions[:, axis] raises for no sample, np.gradient for one.
extract_discontinuities_by_acceleration(t, hpd) ==
    IF Len(t.positions) < 2 THEN Raised
    ELSE LET h == t.time_stamps[2] - t.time_stamps[1]
             f == [i \in 1..Len(t.positions) |-> t.positions[i][hpd.axis + 1]]
             accelerations4h2 == Gradient2h(Gradient2h(f))
         IN  Ok([t EXCEPT
                   !.attrs = @ \cup {"discontinuity_indices"},
                   !.discontinuity_indices =
                       find_peaks(accelerations4h2,
                                  4 * h * h * hpd.acceleration_threshold,
                                  hpd.distance)])

\* _get_approximation_windows, lines 286-291: index runs from len - 2 down to
\* 1 (0-based) over the candidates, the last candidate is never looked at.
RECURSIVE CollapseCandidates(_, _, _)
CollapseCandidates(di, index, window_size) ==
    IF index < 1 THEN di
    ELSE CollapseCandidates(
             IF di[index + 1] - di[index] < window_size THEN DelAt(di, index) ELSE di,
             index - 1, window_size)

\* _get_approximation_windows, lines 280-283.
EffectiveWindowSize(hpd) ==
    IF ~hpd.use_windows THEN hpd.polynom_order ELSE hpd.window_size

\* _get_approximation_windows, lines 286-299: the candidates left after the
\* three checks, as the local variable discontinuity_indices holds them.
\* [ok |-> FALSE] is the IndexError of discontinuity_indices[-1] on the list
\* that dropping the first candidate left empty.
ValidatedCandidates(n, candidates, hpd) ==
    LET window_size == EffectiveWindowSize(hpd)
        collapsed == CollapseCandidates(candidates, Len(candidates) - 2, window_size)
        first == IF collapsed[1] < window_size THEN Tail(collapsed) ELSE collapsed
    IN  IF first = <<>> THEN [ok |-> FALSE]
        ELSE [ok |-> TRUE,
              candidates |-> IF first[Len(first)] > n - window_size
                             THEN SubSeq(first, 1, Len(first) - 1) ELSE first]

\* _get_approximation_windows, lines 302-333: the triples for the candidates
\* di of a trajectory of n samples.
ApproximationIndices(n, di, hpd) ==
    IF hpd.use_windows
    THEN [k \in 1..Len(di) |->
             <<di[k] - hpd.window_size, di[k], di[k] + hpd.window_size>>]
    ELSE (IF Len(di) = 1 THEN << <<0, di[1], n - 1>> >> ELSE <<>>)
         \o [k \in 1..(Len(di) - 1) |->
               \* k - 1 is the program's 0-based index
               << IF k - 1 = 0 THEN 0 ELSE di[k - 1],
                  di[k],
                  IF k - 1 = di[Len(di)] THEN n - 1 ELSE di[k + 1] >>]

\* _check_approximation_windows with _get_approximation_windows, lines
\* 260-335: sets approximation_indices and leaves the trajectory's
\* discontinuity_indices as the extraction stored them.
check_approximation_windows(t, hpd) ==
    IF Len(t.discontinuity_indices) = 0
    THEN Ok([t EXCEPT !.attrs = @ \cup {"approximation_indices"},
                      !.approximation_indices = <<>>])
    ELSE LET v == ValidatedCandidates(Len(t.time_stamps), t.discontinuity_indices, hpd)
         IN  IF ~v.ok THEN Raised
             ELSE Ok([t EXCEPT
                       !.attrs = @ \cup {"approximation_indices"},
                       !.approximation_indices =
                           ApproximationIndices(Len(t.time_stamps), v.candidates, hpd)])

\* _find_rebounds_by_position, lines 339-351: one hit point per entry of the
\* trajectory's discontinuity_indices.
find_rebounds_by_position(t) ==
    LET di == t.discontinuity_indices
    IN  Ok([t EXCEPT
              !.attrs = @ \cup {"hitpoints", "hitpoint_time_stamps"},
              !.hitpoint_time_stamps = [k \in 1..Len(di) |-> t.time_stamps[di[k] + 1]],
              !.hitpoints = [k \in 1..Len(di) |-> t.positions[di[k] + 1]]])

\* The roots accepted in one approximation window, lines 386-396, as offsets
\* of the root time from the candidate's time stamp: np.roots gives at most
\* polynom_order roots in no particular order, and a root is accepted when it
\* lies within root_eval_radius of the candidate.  Which roots the fit has is
\* a matter of the floating point data: every outcome is modelled.
AcceptedRoots(hpd) ==
    SeqsUpTo({o \in {-1, 1} : Abs(o) <= hpd.root_eval_radius}, hpd.polynom_order)

RECURSIVE FlattenSeq(_)
FlattenSeq(ss) == IF ss = <<>> THEN <<>> ELSE ss[1] \o FlattenSeq(Tail(ss))

\* _find_rebounds_by_regression, lines 355-412; roots[k] are the accepted
\* roots of the k-th window.  A hit point of the fit is written
\* <<"fit", candidate, time>>: the polynomial of the "before" samples of that
\* candidate, evaluated at that time.
find_rebounds_by_regression(t, roots) ==
    LET ai == t.approximation_indices
        found == [k \in 1..Len(ai) |->
                    [j \in 1..Len(roots[k]) |->
                        [time |-> t.time_stamps[ai[k][2] + 1] + roots[k][j],
                         candidate |-> ai[k][2]]]]
        flat == FlattenSeq(found)
    IN  Ok([t EXCEPT
              !.attrs = @ \cup {"poly_params", "hitpoints", "hitpoint_time_stamps"},
              !.hitpoint_time_stamps = [i \in 1..Len(flat) |-> flat[i].time],
              !.hitpoints = [i \in 1..Len(flat) |->
                                <<"fit", flat[i].candidate, flat[i].time>>]])

\* Height mode up to the windows, lines 157-162.
HeightModeWindows(t, hpd) ==
    LET d == IF hpd.position_based_indices
             THEN extract_discontinuities_by_position(t, hpd)
             ELSE extract_discontinuities_by_acceleration(t, hpd)
    IN  IF ~d.ok THEN Raised ELSE check_approximation_windows(d.t, hpd)

\* The body of the loop of evaluate_hitpoints, lines 151-167, for one
\* trajectory of the copy; nothing is done for an axis other than 0, 1, 2.
\* (Axis 0 and 1, the plane crossings by spline roots, are not modelled.)
evaluate_hitpoints_one(t0, hpd, roots) ==
    LET t == [Unannotated(t0) EXCEPT !.attrs = {"axis"}, !.axis = Some(hpd.axis)]
    IN  IF hpd.axis = 2
        THEN LET w == HeightModeWindows(t, hpd)
             IN  IF ~w.ok THEN Raised
                 ELSE IF hpd.regression
                      THEN find_rebounds_by_regression(w.t, roots)
                      ELSE find_rebounds_by_position(w.t)
        ELSE Ok(t)

(***************************************************************************)
(* filtering.py.  A trajectory of the pipeline is a TrajectoryData record   *)
(* with one more field, kind, that tells how its three sample channels are  *)
(* stored: "list" (Python lists, as recorded), "array2d" (numpy arrays,     *)
(* positions of shape (n, 3)), "array1d" (numpy arrays made from empty      *)
(* lists: positions of shape (0,)).  Two filters store numpy arrays back    *)
(* into the trajectory, and `del a[i]` and `a[:, 2]` depend on the kind.    *)
(*                                                                         *)
(* A per-trajectory filter returns [ok |-> FALSE] when the program raises   *)
(* there, else [ok |-> TRUE, t |-> the filtered trajectory].                *)
(***************************************************************************)
\* `del t.time_stamps[idx]; del t.positions[idx]; del t.velocities[idx]` for
\* the 0-based indices of idxs in descending order (filtering.py 73-76 and
\* 132-135): a numpy array refuses `del`, a list raises IndexError when idx
\* is out of its range.
RECURSIVE DeleteSamples(_, _)
DeleteSamples(t, idxs) ==
    IF idxs = {} THEN Ok(t)
    ELSE LET idx == CHOOSE i \in idxs : \A j \in idxs : j <= i
         IN  IF t.kind # "list" THEN Raised
             ELSE IF idx >= Len(t.time_stamps) \/ idx >= Len(t.positions)
                     \/ idx >= Len(t.velocities)
                  THEN Raised
                  ELSE DeleteSamples(
                         [t EXCEPT !.time_stamps = DelAt(@, idx),
                                   !.positions = DelAt(@, idx),
                                   !.velocities = DelAt(@, idx)],
                         idxs \ {idx})

RECURSIVE SumAxis(_, _, _, _)
SumAxis(positions, from, to, axis) ==
    IF from > to THEN 0
    ELSE positions[from][axis] + SumAxis(positions, from + 1, to, axis)

\* A slip of the loop bound, range(len(positions) - window_size): the last
\* window is not looked at.
VolatileIndicesBeforeLastWindow(positions, threshold, window_size) ==
    {i \in 0..(Len(positions) - window_size - 1) :
        \E axis \in 1..3 :
            Abs(window_size * positions[i + 1][axis]
                - SumAxis(positions, i + 1, i + window_size, axis))
              > window_size * threshold}

\* filter_volatile_samples, lines 49-54: the 0-based window starts i whose
\* position differs from the average of positions[i : i + window_size] by more
\* than threshold on some axis (|w * p - sum| > w * threshold).
VolatileIndices(positions, threshold, window_size) ==
    {i \in 0..(Len(positions) - window_size) :
        \E axis \in 1..3 :
            Abs(window_size * positions[i + 1][axis]
                - SumAxis(positions, i + 1, i + window_size, axis))
              > window_size * threshold}

\* filter_volatile_samples, the body of the loop over the trajectories.
filter_volatile_samples_one(t, threshold, window_size) ==
    DeleteSamples(t, VolatileIndices(t.positions, threshold, window_size))

\* filter_samples_outside_region, lines 126-130; limits[axis] = <<min, max>>.
OutsideIndices(positions, limits) ==
    {idx \in 0..(Len(positions) - 1) :
        \E axis \in 1..3 :
            ~(limits[axis][1] < positions[idx + 1][axis]
              /\ positions[idx + 1][axis] < limits[axis][2])}

\* filter_samples_outside_region, the body of the loop over the trajectories.
filter_samples_outside_region_one(t, limits) ==
    DeleteSamples(t, OutsideIndices(t.positions, limits))

\* np.array(...) of the three channels: the kind the arrays have.
AsArrayKind(t) ==
    IF t.kind = "list"
    THEN (IF t.positions = <<>> THEN "array1d" ELSE "array2d")
    ELSE t.kind

\* filter_samples_after_first_rebound, the body of the loop (lines 177-198):
\* positions[:, 2] raises on an array of shape (0,); time stamps and
\* positions are cut after the first peak of -(z - offset), the velocities
\* are stored back as they are.
filter_samples_after_first_rebound_one(t, offset, threshold, distance) ==
    IF AsArrayKind(t) = "array1d" THEN Raised
    ELSE LET positions_axis == [i \in 1..Len(t.positions) |->
                                    -(t.positions[i][3] - offset)]
             discontinuity_indices == find_peaks(positions_axis, threshold, distance)
             cut == discontinuity_indices # <<>>
             last == IF cut THEN discontinuity_indices[1] + 1 ELSE 0
         IN  Ok([t EXCEPT
                   !.kind = AsArrayKind(t),
                   !.time_stamps = IF cut THEN SubSeq(@, 1, last) ELSE @,
                   !.positions = IF cut THEN SubSeq(@, 1, last) ELSE @])

\* filter_samples_after_time_stamp, the body of the loop (lines 216-230):
\* np.delete raises IndexError when an index to remove is outside the array.
filter_samples_after_time_stamp_one(t, max_time_stamp) ==
    LET remove_indices == {i \in 0..(Len(t.time_stamps) - 1) :
                              t.time_stamps[i + 1] > max_time_stamp}
        Kept(s) == KeepWhere(s, [i \in 1..Len(s) |-> (i - 1) \notin remove_indices], 1)
    IN  IF \E i \in remove_indices : i >= Len(t.positions) \/ i >= Len(t.velocities)
        THEN Raised
        ELSE Ok([t EXCEPT !.kind = AsArrayKind(t),
                          !.time_stamps = Kept(@),
                          !.positions = Kept(@),
                          !.velocities = Kept(@)])

\* The loop `for trajectory_data in modified_trajectory_collection` of a
\* sample filter over the deep copy: r[i] is what the body gives for the i-th
\* trajectory; the stage raises when the body raises for a trajectory.
MapTrajectories(r) ==
    IF \E i \in 1..Len(r) : ~r[i].ok
    THEN [raised |-> TRUE]
    ELSE [raised |-> FALSE, collection |-> [i \in 1..Len(r) |-> r[i].t]]

filter_volatile_samples(c, threshold, window_size) ==
    MapTrajectories([i \in 1..Len(c) |->
        filter_volatile_samples_one(c[i], threshold, window_size)])

filter_samples_outside_region(c, limits) ==
    MapTrajectories([i \in 1..Len(c) |->
        filter_samples_outside_region_one(c[i], limits)])

filter_samples_after_first_rebound(c, offset, threshold, distance) ==
    MapTrajectories([i \in 1..Len(c) |->
        filter_samples_after_first_rebound_one(c[i], offset, threshold, distance)])

filter_samples_after_time_stamp(c, max_time_stamp) ==
    MapTrajectories([i \in 1..Len(c) |->
        filter_samples_after_time_stamp_one(c[i], max_time_stamp)])

\* TrajectoryCollection.delete_item: `del self._collection[index]`.
delete_item(c, index) == DelAt(c, index)

\* A slip of the gap test: `>=` for `>`.
MaxGapReaches(time_stamps, max_patch_size) ==
    \E i \in 1..(Len(time_stamps) - 1) :
        time_stamps[i + 1] - time_stamps[i] >= max_patch_size

\* np.max(np.diff(time_stamps)) > max_patch_size; np.max raises on the empty
\* array that np.diff gives for fewer than two time stamps.
MaxGapExceeds(time_stamps, max_patch_size) ==
    \E i \in 1..(Len(time_stamps) - 1) :
        time_stamps[i + 1] - time_stamps[i] > max_patch_size

\* remove_patchy_trajectories, lines 317-324: idx runs from the last
\* trajectory (0-based) down to the first.
RECURSIVE remove_patchy_from(_, _, _)
remove_patchy_from(c, idx, max_patch_size) ==
    IF idx < 0 THEN [raised |-> FALSE, collection |-> c]
    ELSE IF Len(c[idx + 1].time_stamps) < 2 THEN [raised |-> TRUE]
         ELSE IF MaxGapExceeds(c[idx + 1].time_stamps, max_patch_size)
              THEN remove_patchy_from(delete_item(c, idx), idx - 1, max_patch_size)
              ELSE remove_patchy_from(c, idx - 1, max_patch_size)

remove_patchy_trajectories(c, max_patch_size) ==
    remove_patchy_from(c, Len(c) - 1, max_patch_size)

\* A slip of remove_short_trajectories: `<=` for `<`.
RECURSIVE remove_short_from_inclusive(_, _, _)
remove_short_from_inclusive(c, idx, min_length) ==
    IF idx < 0 THEN c
    ELSE IF Len(c[idx + 1].positions) <= min_length
         THEN remove_short_from_inclusive(delete_item(c, idx), idx - 1, min_length)
         ELSE remove_short_from_inclusive(c, idx - 1, min_length)

\* remove_short_trajectories, lines 353-357: idx runs from the last trajectory
\* (0-based) down to the first.
RECURSIVE remove_short_from(_, _, _)
remove_short_from(c, idx, min_length) ==
    IF idx < 0 THEN c
    ELSE IF Len(c[idx + 1].positions) < min_length
         THEN remove_short_from(delete_item(c, idx), idx - 1, min_length)
         ELSE remove_short_from(c, idx - 1, min_length)

remove_short_trajectories(c, min_length) ==
    [raised |-> FALSE, collection |-> remove_short_from(c, Len(c) - 1, min_length)]

(***************************************************************************)
(* The preprocessing pipeline: the caller holds a collection of recorded    *)
(* trajectories and hands it from filter to filter, each call taking the    *)
(* collection the previous one returned.                                    *)
(***************************************************************************)
\* Trajectories in a recorded collection.
MaxTrajectories == 2

\* Samples in a recorded collection, over all its trajectories.
MaxTotalSamples == 3

\* ReboundOffset mirrors the table height the detector uses (in cm).
ReboundOffset == 76

\* What one recorded sample can be: the time passed since the previous sample
\* of the trajectory and the position.  A ball above the table, a ball below
\* the table height, and a ball seen again off to the side after a gap.
SampleSteps ==
    {[dt |-> 1, position |-> <<0, 0, 100>>],
     [dt |-> 1, position |-> <<0, 0, 70>>],
     [dt |-> 3, position |-> <<50, 0, 100>>]}

RECURSIVE SumSeq(_)
SumSeq(s) == IF s = <<>> THEN 0 ELSE s[1] + SumSeq(Tail(s))

\* Time stamps of a recorded trajectory: the first is 0 (append_sample rebases
\* on the first sample), each later one adds its step's dt.
RECURSIVE RecordedTimes(_, _)
RecordedTimes(steps, i) ==
    IF i = 0 THEN <<>>
    ELSE IF i = 1 THEN <<0>>
         ELSE LET before == RecordedTimes(steps, i - 1)
              IN  Append(before, before[i - 1] + steps[i].dt)

\* The trajectory append_sample records from the steps, with a velocity for
\* every sample (the i-th velocity is recognisable as the i-th) or with none.
RecordedTrajectory(steps, with_velocities) ==
    [start_time |-> IF steps = <<>> THEN None ELSE Some(0),
     time_stamps |-> RecordedTimes(steps, Len(steps)),
     positions |-> [i \in 1..Len(steps) |-> steps[i].position],
     velocities |-> IF with_velocities
                    THEN [i \in 1..Len(steps) |-> <<i, 0, -1>>] ELSE <<>>,
     launch_param |-> <<>>,
     kind |-> "list"]

\* The recorded collections: trajectory lengths lens, the samples taken from
\* one run of steps cut into pieces of these lengths.
RecordedCollection(lens, steps, with_velocities) ==
    [i \in 1..Len(lens) |->
        RecordedTrajectory(
            SubSeq(steps, SumSeq(SubSeq(lens, 1, i - 1)) + 1,
                          SumSeq(SubSeq(lens, 1, i))),
            with_velocities)]

TrajectoryLengths ==
    {lens \in SeqsUpTo(0..MaxTotalSamples, MaxTrajectories) :
        SumSeq(lens) <= MaxTotalSamples}

NoStage == [name |-> "none", raised |-> FALSE]

PipelineIdle ==
    /\ collection = <<>>
    /\ stage_input = <<>>
    /\ stage = NoStage

InitPipeline ==
    /\ \E lens \in TrajectoryLengths, with_velocities \in BOOLEAN :
         \E steps \in [1..SumSeq(lens) -> SampleSteps] :
            collection = RecordedCollection(lens, steps, with_velocities)
    /\ stage_input = <<>>
    /\ stage = NoStage
    /\ RecordingIdle
    /\ DetectionIdle
    /\ StorageIdle
    /\ MemoryIdle

\* A stage called on the caller's collection: the caller goes on with the
\* returned collection, or keeps its own when the stage raised.
StageRecord(name, args, result) ==
    [name |-> name, args |-> args, raised |-> result.raised]

Returned(result) == IF result.raised THEN collection ELSE result.collection

FilterVolatileSamples ==
    \E threshold \in {10}, window_size \in {2, 3} :
        LET result == filter_volatile_samples(collection, threshold, window_size)
        IN  /\ stage_input' = collection
            /\ stage' = StageRecord("filter_volatile_samples",
                                    <<threshold, window_size>>, result)
            /\ collection' = Returned(result)
            /\ UNCHANGED <<recordingVars, detectionVars, memoryVars, storageVars>>

FilterSamplesOutsideRegion ==
    \E zlimit \in {<<0, 200>>, <<70, 200>>} :
        LET limits == <<<<-10, 10>>, <<-10, 10>>, zlimit>>
            result == filter_samples_outside_region(collection, limits)
        IN  /\ stage_input' = collection
            /\ stage' = StageRecord("filter_samples_outside_region", limits, result)
            /\ collection' = Returned(result)
            /\ UNCHANGED <<recordingVars, detectionVars, memoryVars, storageVars>>

FilterSamplesAfterFirstRebound ==
    \E threshold \in {0}, distance \in {1} :
        LET result == filter_samples_after_first_rebound(
                          collection, ReboundOffset, threshold, distance)
        IN  /\ stage_input' = collection
            /\ stage' = StageRecord("filter_samples_after_first_rebound",
                                    <<ReboundOffset, threshold, distance>>, result)
            /\ collection' = Returned(result)
            /\ UNCHANGED <<recordingVars, detectionVars, memoryVars, storageVars>>

FilterSamplesAfterTimeStamp ==
    \E max_time_stamp \in {1} :
        LET result == filter_samples_after_time_stamp(collection, max_time_stamp)
        IN  /\ stage_input' = collection
            /\ stage' = StageRecord("filter_samples_after_time_stamp",
                                    <<max_time_stamp>>, result)
            /\ collection' = Returned(result)
            /\ UNCHANGED <<recordingVars, detectionVars, memoryVars, storageVars>>

RemovePatchyTrajectories ==
    \E max_patch_size \in {1, 2} :
        LET result == remove_patchy_trajectories(collection, max_patch_size)
        IN  /\ stage_input' = collection
            /\ stage' = StageRecord("remove_patchy_trajectories",
                                    <<max_patch_size>>, result)
            /\ collection' = Returned(result)
            /\ UNCHANGED <<recordingVars, detectionVars, memoryVars, storageVars>>

RemoveShortTrajectories ==
    \E min_length \in {1, 2} :
        LET result == remove_short_trajectories(collection, min_length)
        IN  /\ stage_input' = collection
            /\ stage' = StageRecord("remove_short_trajectories", <<min_length>>, result)
            /\ collection' = Returned(result)
            /\ UNCHANGED <<recordingVars, detectionVars, memoryVars, storageVars>>

NextPipeline ==
    \/ FilterVolatileSamples
    \/ FilterSamplesOutsideRegion
    \/ FilterSamplesAfterFirstRebound
    \/ FilterSamplesAfterTimeStamp
    \/ RemovePatchyTrajectories
    \/ RemoveShortTrajectories

SpecPipeline == InitPipeline /\ [][NextPipeline]_vars

(***************************************************************************)
(* C1, C10                                                                  *)
(***************************************************************************)
SampleFilters ==
    {"filter_volatile_samples", "filter_samples_outside_region",
     "filter_samples_after_first_rebound", "filter_samples_after_time_stamp"}

TrajectoryFilters == {"remove_patchy_trajectories", "remove_short_trajectories"}

ChannelsAligned(t) ==
    /\ Len(t.time_stamps) = Len(t.positions)
    /\ Len(t.positions) = Len(t.velocities)

\* C1: after any filter pass that returned (and so after any sequence of
\* them), every output trajectory whose input had as many velocities as
\* positions has len(time_stamps) = len(positions) = len(velocities), and the
\* output collection has no more trajectories than the input.  A sample filter
\* maps the i-th trajectory to the i-th; a trajectory filter returns
\* trajectories of its input.
C1_FiltersKeepChannelsAligned ==
    (stage.name \in SampleFilters \cup TrajectoryFilters /\ ~stage.raised) =>
        /\ Len(collection) <= Len(stage_input)
        /\ stage.name \in SampleFilters =>
              \A i \in 1..Len(collection) :
                  ChannelsAligned(stage_input[i]) => ChannelsAligned(collection[i])
        /\ stage.name \in TrajectoryFilters =>
              \A i \in 1..Len(collection) :
                  \E j \in 1..Len(stage_input) :
                      /\ collection[i].positions = stage_input[j].positions
                      /\ ChannelsAligned(stage_input[j]) => ChannelsAligned(collection[i])

\* C10: remove_short_trajectories(c, min_length) returns exactly the
\* trajectories of c with at least min_length samples, in their original
\* order, at the indices 0..n-1 without holes.
C10_RemoveShortKeepsLongEnough ==
    stage.name = "remove_short_trajectories" =>
        LET min_length == stage.args[1]
            LongEnough(t) == Len(t.positions) >= min_length
        IN  /\ ~stage.raised
            /\ collection = SelectSeq(stage_input, LongEnough)
            /\ DOMAIN collection = 1..Len(collection)

\* The first of two trajectories was too short and removed; the second, with
\* exactly min_length samples, was kept and is now at index 0.
C10_Witness ==
    /\ stage.name = "remove_short_trajectories"
    /\ Len(stage_input) = 2
    /\ Len(stage_input[1].positions) < stage.args[1]
    /\ Len(stage_input[2].positions) = stage.args[1]
    /\ collection = <<stage_input[2]>>

C12_SampleFiltersKeepEveryTrajectory ==
    stage.name \in SampleFilters =>
        /\ ~stage.raised
        /\ Len(collection) = Len(stage_input)

\* The sum over the window of window_size positions starting at the
\* (1-based) sample k of what position k exceeds them by on the axis:
\* window_size times the distance of position k from the window's average.
RECURSIVE WindowDeviation(_, _, _, _)
WindowDeviation(positions, k, window_size, axis) ==
    IF window_size = 0 THEN 0
    ELSE positions[k][axis] - positions[k + window_size - 1][axis]
         + WindowDeviation(positions, k, window_size - 1, axis)

\* The (1-based) samples of the n positions that filter_volatile_samples is to
\* remove: those that start a full window and are further than threshold from
\* the average of this window on some axis.
VolatilePlaces(positions, threshold, window_size) ==
    {k \in 1..Len(positions) :
        /\ k - 1 <= Len(positions) - window_size
        /\ \E axis \in 1..3 :
              Abs(WindowDeviation(positions, k, window_size, axis))
                  > window_size * threshold}

\* The samples of channel s at the (1-based) places in keep, in order.
RECURSIVE SamplesAt(_, _, _)
SamplesAt(s, keep, k) ==
    IF k > Len(s) THEN <<>>
    ELSE (IF k \in keep THEN <<s[k]>> ELSE <<>>) \o SamplesAt(s, keep, k + 1)

\* C13: the region filter keeps exactly the samples whose position lies
\* within the closed bounds [min, max] on all three axes (a sample on a bound
\* is kept), removes time stamp, position and velocity of the others
\* together, and keeps the order (for input trajectories whose three channels
\* have one length).
C13_RegionFilterKeepsClosedRegion ==
    (/\ stage.name = "filter_samples_outside_region"
     /\ ~stage.raised
     /\ \A j \in 1..Len(stage_input) : ChannelsAligned(stage_input[j])) =>
        \A i \in 1..Len(stage_input) :
            LET limits == stage.args
                t == stage_input[i]
                Inside(p) == \A axis \in 1..3 :
                                 /\ limits[axis][1] <= p[axis]
                                 /\ p[axis] <= limits[axis][2]
                keep == {k \in 1..Len(t.positions) : Inside(t.positions[k])}
            IN  /\ collection[i].time_stamps = SamplesAt(t.time_stamps, keep, 1)
                /\ collection[i].positions = SamplesAt(t.positions, keep, 1)
                /\ collection[i].velocities = SamplesAt(t.velocities, keep, 1)

\* C14: the rebound filter cuts every per-sample channel of a trajectory
\* (time stamps, positions, velocities) to the samples 0..d, d the first peak
\* index of -(z - offset) above the threshold, and leaves the samples of a
\* trajectory without such a peak as they are.
C14_ReboundFilterTruncatesEveryChannel ==
    (/\ stage.name = "filter_samples_after_first_rebound"
     /\ ~stage.raised
     /\ \A j \in 1..Len(stage_input) : ChannelsAligned(stage_input[j])) =>
        \A i \in 1..Len(stage_input) :
            LET t == stage_input[i]
                peaks == find_peaks(
                    [k \in 1..Len(t.positions) |-> -(t.positions[k][3] - stage.args[1])],
                    stage.args[2], stage.args[3])
                Cut(s) == IF peaks = <<>> THEN s ELSE SubSeq(s, 1, peaks[1] + 1)
            IN  /\ collection[i].time_stamps = Cut(t.time_stamps)
                /\ collection[i].positions = Cut(t.positions)
                /\ collection[i].velocities = Cut(t.velocities)

\* C25: filter_volatile_samples removes from a trajectory of n samples
\* exactly the indices 0 <= i <= n - window_size whose position is further
\* than threshold from the average of positions[i .. i + window_size - 1] on
\* some axis, every window taken on the positions as they were given; the
\* last window_size - 1 samples and a trajectory shorter than window_size are
\* left as they are, and time stamp, position and velocity go together (for
\* input trajectories whose three channels have one length).
C25_VolatileFilterRemovesWindowOutliers ==
    (/\ stage.name = "filter_volatile_samples"
     /\ ~stage.raised
     /\ \A j \in 1..Len(stage_input) : ChannelsAligned(stage_input[j])) =>
        \A i \in 1..Len(stage_input) :
            LET threshold == stage.args[1]
                window_size == stage.args[2]
                t == stage_input[i]
                n == Len(t.positions)
                keep == (1..n) \ VolatilePlaces(t.positions, threshold, window_size)
            IN  /\ collection[i].time_stamps = SamplesAt(t.time_stamps, keep, 1)
                /\ collection[i].positions = SamplesAt(t.positions, keep, 1)
                /\ collection[i].velocities = SamplesAt(t.velocities, keep, 1)
                /\ {k \in 1..n : k > n - window_size + 1} \subseteq keep
                /\ n < window_size => collection[i].positions = t.positions

\* A trajectory of three samples with all its velocities went through the
\* filter with windows of two samples: its first two samples were removed,
\* each for the window it starts, and its last sample was left.
C25_Witness ==
    /\ stage.name = "filter_volatile_samples"
    /\ ~stage.raised
    /\ stage.args[2] = 2
    /\ \E i \in 1..Len(stage_input) :
          /\ ChannelsAligned(stage_input[i])
          /\ Len(stage_input[i].positions) = 3
          /\ Len(stage_input[i].velocities) = 3
          /\ VolatilePlaces(stage_input[i].positions, stage.args[1], 2) = {1, 2}
          /\ collection[i].positions = <<stage_input[i].positions[3]>>
          /\ collection[i].velocities = <<stage_input[i].velocities[3]>>

\* C30: remove_patchy_trajectories returns on every collection, also on one
\* with trajectories of zero or one sample, and keeps these trajectories:
\* they have no gap.
C30_RemovePatchyNeverRaises ==
    stage.name = "remove_patchy_trajectories" =>
        /\ ~stage.raised
        /\ \A j \in 1..Len(stage_input) :
              Len(stage_input[j].time_stamps) < 2 =>
                  \E i \in 1..Len(collection) :
                      /\ collection[i].time_stamps = stage_input[j].time_stamps
                      /\ collection[i].positions = stage_input[j].positions

(***************************************************************************)
(* Recording: observations arrive with non-decreasing time stamps          *)
(***************************************************************************)
LastObservationTime ==
    IF observations = <<>> THEN 0 ELSE observations[Len(observations)].time_stamp

InitRecording ==
    /\ td = NewTrajectoryData
    /\ observations = <<>>
    /\ td_copy = None
    /\ PipelineIdle
    /\ DetectionIdle
    /\ StorageIdle
    /\ MemoryIdle

AppendSample ==
    \E ball_id \in BallIds, time_stamp \in 0..MaxTime,
       position \in RecPositions, velocity \in {None, Some(RecVelocity)} :
        /\ Len(observations) < MaxObservations
        /\ time_stamp >= LastObservationTime
        /\ td' = append_sample(td, ball_id, time_stamp, position, velocity)
        /\ observations' = Append(observations,
               [ball_id |-> ball_id, time_stamp |-> time_stamp,
                position |-> position, velocity |-> velocity])
        /\ UNCHANGED td_copy
        /\ UNCHANGED <<pipelineVars, detectionVars, memoryVars, storageVars>>

Reset ==
    /\ observations # <<>>
    /\ td' = reset(td)
    /\ observations' = <<>>
    /\ UNCHANGED td_copy
    /\ UNCHANGED <<pipelineVars, detectionVars, memoryVars, storageVars>>

NextRecording == AppendSample \/ Reset

SpecRecording == InitRecording /\ [][NextRecording]_vars

(***************************************************************************)
(* C9                                                                       *)
(***************************************************************************)
IsValid(o) == o.ball_id >= 0

ValidObservations == SelectSeq(observations, IsValid)

HasVelocity(o) == o.velocity # None

\* C9: for any interleaving of valid and negative-id observations appended to
\* a fresh or reset trajectory, the stored state is a function of the valid
\* observations alone: time_stamps are t_i - t_first in arrival order (so the
\* first one is 0), positions are the valid positions, start_time is t_first
\* (None while no valid observation arrived), and
\* len(time_stamps) = len(positions) = number of valid observations.
C9_RebasedValidSamples ==
    LET valid == ValidObservations
    IN  /\ Len(td.time_stamps) = Len(valid)
        /\ Len(td.positions) = Len(valid)
        /\ \A i \in 1..Len(valid) :
              /\ td.time_stamps[i] = valid[i].time_stamp - valid[1].time_stamp
              /\ td.positions[i] = valid[i].position
        /\ (valid # <<>> => td.time_stamps[1] = 0)
        /\ td.start_time = IF valid = <<>> THEN None ELSE Some(valid[1].time_stamp)
        /\ LET withv == SelectSeq(valid, HasVelocity)
           IN  td.velocities = [i \in 1..Len(withv) |-> withv[i].velocity[1]]

\* A negative-id observation arrived between two valid ones, the first valid
\* one at a non-zero time, and the second one later.
C9_Witness ==
    /\ Len(observations) = 3
    /\ observations[1].ball_id < 0
    /\ observations[2].ball_id >= 0 /\ observations[2].time_stamp = 1
    /\ observations[3].ball_id >= 0 /\ observations[3].time_stamp = 2
    /\ td.time_stamps = <<0, 1>>

(***************************************************************************)
(* Specification 10: a trajectory that is recorded, given launch            *)
(* parameters, reset, and handed to TrajectoryData(...) as template         *)
(***************************************************************************)
\* Samples in the template.
MaxCopySamples == 2

\* Launch parameters (phi, theta, omega_1, omega_2, omega_3).
LaunchParams == {<<45, 30, 10, 10, 10>>, <<0, 0, 5, 5, 5>>}

InitCopy ==
    /\ RecordingIdle
    /\ PipelineIdle
    /\ DetectionIdle
    /\ StorageIdle
    /\ MemoryIdle

\* td.set_launch_param(value)
SetLaunchParam ==
    \E value \in LaunchParams :
        /\ td' = set_launch_param(td, value)
        /\ UNCHANGED <<observations, td_copy>>
        /\ UNCHANGED <<pipelineVars, detectionVars, memoryVars, storageVars>>

\* td.append_sample(...) of a detected ball, one sample per tick.  The lists
\* of the copy are lists of their own (.copy(), lines 34-36): the append to
\* the lists of td does not reach them.
RecordSample ==
    \E position \in RecPositions, velocity \in {None, Some(RecVelocity)} :
        /\ Len(td.positions) < MaxCopySamples
        /\ td' = append_sample(td, 0, Len(td.time_stamps), position, velocity)
        /\ UNCHANGED <<observations, td_copy>>
        /\ UNCHANGED <<pipelineVars, detectionVars, memoryVars, storageVars>>

\* td.reset(): td gets new lists.
ResetTemplate ==
    /\ td' = reset(td)
    /\ UNCHANGED <<observations, td_copy>>
    /\ UNCHANGED <<pipelineVars, detectionVars, memoryVars, storageVars>>

\* TrajectoryData(td)
CopyTrajectoryData ==
    /\ td_copy' = Some([template |-> td, made |-> TrajectoryData_init(Some(td))])
    /\ UNCHANGED <<td, observations>>
    /\ UNCHANGED <<pipelineVars, detectionVars, memoryVars, storageVars>>

NextCopy == SetLaunchParam \/ RecordSample \/ ResetTemplate \/ CopyTrajectoryData

SpecCopy == InitCopy /\ [][NextCopy]_vars

(***************************************************************************)
(* C26                                                                     *)
(***************************************************************************)
\* C26: the trajectory TrajectoryData(other) made has the time stamps,
\* positions, velocities and launch parameters other had when it was handed
\* in, also for an other without samples whose launch parameters are set, and
\* keeps them whatever is appended to other or reset there afterwards.
C26_CopyTakesSamplesAndLaunchParam ==
    td_copy # None =>
        LET other == td_copy[1].template
            made == td_copy[1].made
        IN  /\ made.time_stamps = other.time_stamps
            /\ made.positions = other.positions
            /\ made.velocities = other.velocities
            /\ made.launch_param = other.launch_param

(***************************************************************************)
(* Specification 3: constructing a HitPointDetection and evaluating one     *)
(* trajectory with it                                                       *)
(***************************************************************************)
MaxDetectSamples == 5

\* Heights in cm on either side of TABLE_HEIGHT.
DetectHeights == {100, 70}

\* The length of the long recordings: room for three candidates in a row.
LongSamples == 9

\* The long recordings: the ball is above the table for the first three
\* samples.
LongProfiles ==
    {zs \in [1..LongSamples -> DetectHeights] : \A i \in 1..3 : zs[i] = 100}

\* The height profiles a detector is tried on: every short one, and the long
\* ones for a detector that resolves the hit points by position.
DetectProfiles(hpd) ==
    SeqsUpTo(DetectHeights, MaxDetectSamples)
        \cup (IF hpd.regression THEN {} ELSE LongProfiles)

\* The detection axes tried: the height axis and a number that is no axis.
\* (Axis 0 and 1 select the plane-crossing mode.)
DetectAxes == {2, 5}

\* The settings tried for the parameters other than the axis.
DetectorSettings ==
    [distance : {1, 3}, position_threshold : {0}, acceleration_threshold : {15},
     polynom_order : {1, 2}, use_windows : BOOLEAN, window_size : {1, 2, 3},
     root_eval_radius : {1}, position_based_indices : BOOLEAN,
     regression : BOOLEAN]
    \cup
    [distance : {1}, position_threshold : {0}, acceleration_threshold : {15},
     polynom_order : {3}, use_windows : BOOLEAN, window_size : {3},
     root_eval_radius : {1}, position_based_indices : {TRUE},
     regression : {FALSE}]

\* The configuration file with the settings v and the axis a.
ConfigOf(v, a) ==
    [axis |-> a, distance |-> v.distance,
     position_threshold |-> v.position_threshold,
     acceleration_threshold |-> v.acceleration_threshold,
     polynom_order |-> v.polynom_order, use_windows |-> v.use_windows,
     window_size |-> v.window_size, root_eval_radius |-> v.root_eval_radius,
     position_based_indices |-> v.position_based_indices,
     regression |-> v.regression]

\* The constructor arguments giving the settings v and the axis argument a.
ArgsOf(v, a) ==
    [axis |-> a, distance |-> Some(v.distance),
     position_threshold |-> Some(v.position_threshold),
     acceleration_threshold |-> Some(v.acceleration_threshold),
     polynom_order |-> Some(v.polynom_order), use_windows |-> Some(v.use_windows),
     window_size |-> Some(v.window_size),
     root_eval_radius |-> Some(v.root_eval_radius),
     position_based_discontinuities |-> Some(v.position_based_indices),
     rebound_regression |-> Some(v.regression)]

\* The constructor called with every argument left at None.
NoArgs ==
    [axis |-> None, distance |-> None, position_threshold |-> None,
     acceleration_threshold |-> None, polynom_order |-> None,
     use_windows |-> None, window_size |-> None, root_eval_radius |-> None,
     position_based_discontinuities |-> None, rebound_regression |-> None]

\* The configuration file as shipped, apart from the axis a.
DefaultSettings ==
    [distance |-> 1, position_threshold |-> 0, acceleration_threshold |-> 15,
     polynom_order |-> 1, use_windows |-> FALSE, window_size |-> 1,
     root_eval_radius |-> 1, position_based_indices |-> TRUE,
     regression |-> FALSE]

\* A trajectory sampled at every tick, its ball at the heights zs.
SampledTrajectory(zs) ==
    [start_time |-> IF zs = <<>> THEN None ELSE Some(0),
     time_stamps |-> [i \in 1..Len(zs) |-> i - 1],
     positions |-> [i \in 1..Len(zs) |-> <<0, 0, zs[i]>>],
     velocities |-> <<>>, launch_param |-> <<>>, kind |-> "list"]

InitDetection ==
    /\ DetectionIdle
    /\ StorageIdle
    /\ RecordingIdle
    /\ PipelineIdle
    /\ MemoryIdle

\* detector = HitPointDetection(...): with every setting given as argument,
\* or with every setting read from the configuration file; the axis is given
\* as argument or read from the file in either case.  The caller constructs
\* until it holds a detector.
Construct ==
    /\ detector = None
    /\ \E v \in DetectorSettings, from_arguments \in BOOLEAN,
       axis_argument \in {None} \cup {Some(a) : a \in DetectAxes},
       config_axis \in DetectAxes :
        LET args == IF from_arguments THEN ArgsOf(v, axis_argument)
                    ELSE [NoArgs EXCEPT !.axis = axis_argument]
            config == IF from_arguments THEN ConfigOf(DefaultSettings, config_axis)
                      ELSE ConfigOf(v, config_axis)
            made == HitPointDetection_init(args, config)
        IN  /\ detector_call' =
                   Some([axis_argument |-> axis_argument,
                         config_axis |-> config_axis,
                         window_size |-> v.window_size,
                         polynom_order |-> v.polynom_order,
                         error |-> made.error])
            /\ detector' = IF made.error = "none" THEN Some(made) ELSE None
            /\ evaluation' = None
            /\ UNCHANGED <<recordingVars, pipelineVars, memoryVars, storageVars>>

\* detector.evaluate_hitpoints(collection) for a collection of one
\* trajectory.  The call reads the detector's attributes and writes none, so
\* one call per detector shows what every call does.
EvaluateHitpoints ==
    /\ detector # None
    /\ evaluation = None
    /\ \E zs \in DetectProfiles(detector[1]) :
         LET hpd == detector[1]
             t == SampledTrajectory(zs)
             w == IF hpd.axis = 2 THEN HeightModeWindows(
                      [Unannotated(t) EXCEPT !.attrs = {"axis"},
                                             !.axis = Some(hpd.axis)], hpd)
                  ELSE Raised
             windows == IF w.ok THEN Len(w.t.approximation_indices) ELSE 0
         IN  \E roots \in [1..windows -> AcceptedRoots(hpd)] :
               LET result == evaluate_hitpoints_one(t, hpd, roots)
               IN  evaluation' =
                       Some([input |-> t, raised |-> ~result.ok,
                             result |-> IF result.ok THEN Some(result.t) ELSE None])
    /\ UNCHANGED <<detector_call, detector, recordingVars, pipelineVars,
                   memoryVars, storageVars>>

NextDetection == Construct \/ EvaluateHitpoints

SpecDetection == InitDetection /\ [][NextDetection]_vars

(***************************************************************************)
(* C6                                                                      *)
(***************************************************************************)
\* The axis the new detector works with: the argument, else the configured one.
RequestedAxis(call) == Resolve(call.axis_argument, call.config_axis)

\* C6: a HitPointDetection(...) call whose detection axis is not 0, 1 or 2
\* fails with a ValueError, whether the axis was read from the configuration
\* or passed as argument, and so does a call whose window size is smaller than
\* its polynom order.
C6_InvalidParametersFailAtConstruction ==
    detector_call # None =>
        LET call == detector_call[1]
        IN  (RequestedAxis(call) \notin {0, 1, 2}
                \/ call.window_size < call.polynom_order)
            => call.error = "ValueError"

(***************************************************************************)
(* C4, C5                                                                  *)
(***************************************************************************)
\* The candidates of the evaluated trajectory, as the extraction finds them.
DetectedCandidates(t, hpd) ==
    IF hpd.position_based_indices
    THEN extract_discontinuities_by_position(Unannotated(t), hpd)
    ELSE extract_discontinuities_by_acceleration(Unannotated(t), hpd)

\* The candidates that survive window validation (none when validation left
\* no candidate at all).
SurvivingCandidates(t, candidates, hpd) ==
    IF candidates = <<>> THEN <<>>
    ELSE LET v == ValidatedCandidates(Len(t.time_stamps), candidates, hpd)
         IN  IF v.ok THEN v.candidates ELSE <<>>

\* C4: after an evaluation in height mode with position-based resolution, the
\* hit points of the trajectory are the samples at the candidates that survive
\* window validation, in ascending order, with the time stamps of these
\* samples.
C4_HitpointsAtSurvivingCandidates ==
    (evaluation # None /\ detector # None) =>
        LET hpd == detector[1]
            e == evaluation[1]
        IN  (hpd.axis = 2 /\ ~hpd.regression /\ ~e.raised) =>
               LET r == e.result[1]
                   surviving == SurvivingCandidates(e.input, r.discontinuity_indices, hpd)
               IN  /\ r.hitpoints =
                         [k \in 1..Len(surviving) |-> e.input.positions[surviving[k] + 1]]
                   /\ r.hitpoint_time_stamps =
                         [k \in 1..Len(surviving) |-> e.input.time_stamps[surviving[k] + 1]]

\* C5: an evaluation in height mode of a trajectory on which no candidate is
\* detected, or none survives window validation, does not raise and leaves
\* the trajectory with empty hitpoints and hitpoint_time_stamps.
C5_NoSurvivingCandidateGivesNoHitpoints ==
    (evaluation # None /\ detector # None) =>
        LET hpd == detector[1]
            e == evaluation[1]
            d == DetectedCandidates(e.input, hpd)
        IN  (hpd.axis = 2 /\ d.ok
               /\ SurvivingCandidates(e.input, d.t.discontinuity_indices, hpd) = <<>>)
            => /\ ~e.raised
               /\ e.result[1].hitpoints = <<>>
               /\ e.result[1].hitpoint_time_stamps = <<>>

(***************************************************************************)
(* C17                                                                     *)
(***************************************************************************)
\* The hit point hp is the 3D point that belongs to the time time on the
\* evaluated trajectory r: by regression the value of a fit for that time, by
\* position the position of a sample with that time stamp.
BelongsTo(hp, time, r, regression) ==
    IF regression
    THEN hp[3] = time
    ELSE \E k \in 1..Len(r.time_stamps) :
            r.time_stamps[k] = time /\ r.positions[k] = hp

\* C17: after an evaluation in height mode, by position or by regression,
\* the hitpoint_time_stamps of the trajectory are in ascending order and
\* hitpoints[i] is the point that belongs to hitpoint_time_stamps[i].
C17_HitpointsAscendingAndPaired ==
    (evaluation # None /\ detector # None) =>
        LET hpd == detector[1]
            e == evaluation[1]
        IN  (hpd.axis = 2 /\ ~e.raised) =>
               LET r == e.result[1]
                   ts == r.hitpoint_time_stamps
               IN  /\ Len(r.hitpoints) = Len(ts)
                   /\ \A i \in 1..(Len(ts) - 1) : ts[i] <= ts[i + 1]
                   /\ \A i \in 1..Len(ts) :
                         BelongsTo(r.hitpoints[i], ts[i], r, hpd.regression)

(***************************************************************************)
(* C18                                                                     *)
(***************************************************************************)
\* The hit point hp of the evaluated trajectory r was derived from the
\* candidate index: by regression it is a value of the fit around that
\* candidate, by position it is the sample at that candidate.
DerivedFrom(hp, index, r, regression) ==
    IF regression
    THEN hp[2] = index
    ELSE index < Len(r.positions) /\ hp = r.positions[index + 1]

\* C18: after an evaluation in height mode that left at least one hit point,
\* the first hit point was derived from the candidate stored first in
\* discontinuity_indices, and every hit point from a stored candidate.
C18_FirstHitpointFromFirstStoredCandidate ==
    (evaluation # None /\ detector # None) =>
        LET hpd == detector[1]
            e == evaluation[1]
        IN  (hpd.axis = 2 /\ ~e.raised /\ e.result[1].hitpoints # <<>>) =>
               LET r == e.result[1]
                   di == r.discontinuity_indices
               IN  /\ di # <<>>
                   /\ DerivedFrom(r.hitpoints[1], di[1], r, hpd.regression)
                   /\ \A i \in 1..Len(r.hitpoints) : \E k \in 1..Len(di) :
                         DerivedFrom(r.hitpoints[i], di[k], r, hpd.regression)

(***************************************************************************)
(* C22, C23, C24, C29                                                      *)
(***************************************************************************)
\* C22: after an evaluation in height mode the trajectory has exactly one
\* approximation triple per candidate that survives validation, in the order
\* of the candidates, under the fixed-window and the natural-window policy.
C22_OneTriplePerSurvivingCandidate ==
    (evaluation # None /\ detector # None) =>
        LET hpd == detector[1]
            e == evaluation[1]
        IN  (hpd.axis = 2 /\ ~e.raised) =>
               LET r == e.result[1]
                   surviving == SurvivingCandidates(e.input, r.discontinuity_indices, hpd)
                   ai == r.approximation_indices
               IN  /\ Len(ai) = Len(surviving)
                   /\ \A k \in 1..Len(ai) : ai[k][2] = surviving[k]

\* The midpoints between two sample indices: the rounding of an odd sum is
\* left open, both neighbours of the half are accepted.
Midpoints(a, b) == {(a + b) \div 2, (a + b + 1) \div 2}

\* C23: under the natural-window policy with two or more surviving
\* candidates the lower bound of a triple is the midpoint to the previous
\* candidate (0 for the first candidate) and the upper bound the midpoint to
\* the next candidate (n - 1 for the last); under the fixed-window policy the
\* bounds are candidate - window_size and candidate + window_size.
C23_WindowBounds ==
    (evaluation # None /\ detector # None) =>
        LET hpd == detector[1]
            e == evaluation[1]
        IN  (hpd.axis = 2 /\ ~e.raised) =>
               LET r == e.result[1]
                   n == Len(e.input.time_stamps)
                   surviving == SurvivingCandidates(e.input, r.discontinuity_indices, hpd)
                   ai == r.approximation_indices
               IN  IF hpd.use_windows
                   THEN \A k \in 1..Len(ai) :
                           /\ ai[k][1] = ai[k][2] - hpd.window_size
                           /\ ai[k][3] = ai[k][2] + hpd.window_size
                   ELSE Len(surviving) >= 2 =>
                           \A k \in 1..Len(ai) :
                              /\ ai[k][2] = surviving[k]
                              /\ IF k = 1 THEN ai[k][1] = 0
                                 ELSE ai[k][1] \in Midpoints(surviving[k - 1], surviving[k])
                              /\ IF k = Len(surviving) THEN ai[k][3] = n - 1
                                 ELSE ai[k][3] \in Midpoints(surviving[k], surviving[k + 1])

\* C24: after window validation under the natural-window policy any two
\* consecutive surviving candidates are at least the effective window size
\* apart, the last pair included; under the fixed-window policy no candidate
\* is collapsed, every candidate between the first and the last one survives.
C24_SurvivorsApartUnderNaturalWindows ==
    (evaluation # None /\ detector # None) =>
        LET hpd == detector[1]
            e == evaluation[1]
        IN  (hpd.axis = 2 /\ ~e.raised) =>
               LET candidates == e.result[1].discontinuity_indices
                   surviving == SurvivingCandidates(e.input, candidates, hpd)
               IN  IF hpd.use_windows
                   THEN \A k \in 2..(Len(candidates) - 1) :
                           candidates[k] \in Range(surviving)
                   ELSE \A k \in 1..(Len(surviving) - 1) :
                           surviving[k + 1] - surviving[k] >= EffectiveWindowSize(hpd)

\* C29: every approximation triple (lower, candidate, upper) stored for a
\* trajectory of n samples satisfies 0 <= lower <= candidate <= upper <= n - 1,
\* under both window policies.
C29_TriplesAddressExistingSamples ==
    (evaluation # None /\ detector # None) =>
        LET hpd == detector[1]
            e == evaluation[1]
        IN  (hpd.axis = 2 /\ ~e.raised) =>
               LET ai == e.result[1].approximation_indices
                   n == Len(e.input.time_stamps)
               IN  \A k \in 1..Len(ai) :
                      /\ 0 <= ai[k][1]
                      /\ ai[k][1] <= ai[k][2]
                      /\ ai[k][2] <= ai[k][3]
                      /\ ai[k][3] <= n - 1

(***************************************************************************)
(* hitpoint_utils.py                                                        *)
(*                                                                         *)
(* Hit point coordinates are integers in units of 1/16 cm: the averages of  *)
(* up to four successive merges of the points used are exact.               *)
(***************************************************************************)
\* euclidian_distance(p, q) < tolerance, lines 98-100 and 119, for a
\* tolerance >= 0, compared by the squares.
CloserThan(p, q, tolerance) ==
    (q[1] - p[1]) * (q[1] - p[1]) + (q[2] - p[2]) * (q[2] - p[2])
        + (q[3] - p[3]) * (q[3] - p[3]) < tolerance * tolerance

\* average(p, q), lines 102-103.
average(p, q) == [k \in 1..3 |-> (p[k] + q[k]) \div 2]

\* The while loop of average_close_hitpoints, lines 112-129, from the 0-based
\* position x on, with averaged_hitpoints as built so far.
RECURSIVE AverageLoop(_, _, _, _)
AverageLoop(hitpoints, x, averaged_hitpoints, tolerance) ==
    IF ~(x < Len(hitpoints) - 1) THEN averaged_hitpoints
    ELSE LET point_prev == hitpoints[x + 1]
             point_succ == hitpoints[x + 2]
         IN  IF CloserThan(point_prev, point_succ, tolerance)
             THEN AverageLoop(hitpoints, x + 2,
                      Append(averaged_hitpoints, average(point_prev, point_succ)),
                      tolerance)
             ELSE AverageLoop(hitpoints, x + 1,
                      IF x = Len(hitpoints) - 2
                      THEN averaged_hitpoints \o <<point_prev, point_succ>>
                      ELSE Append(averaged_hitpoints, point_prev),
                      tolerance)

\* The body of the loop of average_close_hitpoints, lines 108-131, for one
\* trajectory of the deep copy; sample["hitpoints"] raises AttributeError on
\* a trajectory that was never evaluated.  hitpoint_time_stamps is not touched.
average_close_hitpoints_one(t, tolerance) ==
    IF "hitpoints" \notin t.attrs THEN Raised
    ELSE Ok([t EXCEPT !.hitpoints = AverageLoop(t.hitpoints, 0, <<>>, tolerance)])

average_close_hitpoints(c, tolerated_euclidian_distance) ==
    MapTrajectories([i \in 1..Len(c) |->
        average_close_hitpoints_one(c[i], tolerated_euclidian_distance)])

(***************************************************************************)
(* Specification 4: hit point post-processing of an evaluated collection    *)
(***************************************************************************)
MaxHits == 4

\* Hit points: two that lie 1 cm apart, one far away from both.
HitPoints == {<<0, 0, 0>>, <<16, 0, 0>>, <<8000, 8000, 8000>>}

\* Tolerances: 10 cm, the default of average_close_hitpoints, and 0.
Tolerances == {160, 0}

\* A trajectory with the hit points hs found one tick after the other; the
\* samples play no part in the post-processing and are left out.
EvaluatedTrajectory(hs) ==
    [Unannotated(RecordedTrajectory(<<>>, FALSE)) EXCEPT
        !.attrs = {"axis", "discontinuity_indices", "approximation_indices",
                   "hitpoints", "hitpoint_time_stamps"},
        !.axis = Some(2),
        !.hitpoints = hs,
        !.hitpoint_time_stamps = [i \in 1..Len(hs) |-> i - 1]]

\* The caller holds a collection of one trajectory, evaluated or not.
InitHitpoints ==
    /\ \/ \E hs \in SeqsUpTo(HitPoints, MaxHits) :
            collection = <<EvaluatedTrajectory(hs)>>
       \/ collection = <<Unannotated(RecordedTrajectory(<<>>, FALSE))>>
    /\ stage_input = <<>>
    /\ stage = NoStage
    /\ RecordingIdle
    /\ DetectionIdle
    /\ StorageIdle
    /\ MemoryIdle

AverageCloseHitpoints ==
    \E tolerance \in Tolerances :
        LET result == average_close_hitpoints(collection, tolerance)
        IN  /\ stage_input' = collection
            /\ stage' = StageRecord("average_close_hitpoints", <<tolerance>>, result)
            /\ collection' = Returned(result)
            /\ UNCHANGED <<recordingVars, detectionVars, memoryVars, storageVars>>

NextHitpoints == AverageCloseHitpoints

SpecHitpoints == InitHitpoints /\ [][NextHitpoints]_vars

(***************************************************************************)
(* C2                                                                      *)
(***************************************************************************)
\* The merge of the claim: scanning from the left, two consecutive points
\* closer than the tolerance are replaced by their average and the scan goes
\* on behind the pair; otherwise the point is kept and the scan goes on with
\* the next one.  A last point without successor is kept.
RECURSIVE GreedyPairwiseMerge(_, _)
GreedyPairwiseMerge(hs, tolerance) ==
    IF Len(hs) <= 1 THEN hs
    ELSE IF CloserThan(hs[1], hs[2], tolerance)
         THEN <<average(hs[1], hs[2])>>
                  \o GreedyPairwiseMerge(SubSeq(hs, 3, Len(hs)), tolerance)
         ELSE <<hs[1]>> \o GreedyPairwiseMerge(Tail(hs), tolerance)

\* C2: average_close_hitpoints leaves on every trajectory the greedy
\* left-to-right pairwise merge of its hit points, in which every hit point
\* of the input appears unchanged or inside exactly one average.
C2_AverageIsGreedyPairwiseMerge ==
    (stage.name = "average_close_hitpoints" /\ ~stage.raised) =>
        /\ Len(collection) = Len(stage_input)
        /\ \A i \in 1..Len(collection) :
              collection[i].hitpoints =
                  GreedyPairwiseMerge(stage_input[i].hitpoints, stage.args[1])

(***************************************************************************)
(* hitpoint_utils.py: selection of hit points and of trajectories          *)
(*                                                                         *)
(* A function of this part gives [raised |-> TRUE, error |-> the exception] *)
(* or [raised |-> FALSE, ...] with the collection or the number it returns. *)
(***************************************************************************)
\* Python s[i] on a list: the 0-based places -len(s)..len(s)-1 exist.
InRange(s, i) == -Len(s) <= i /\ i < Len(s)

PyIndex(s, i) == IF i >= 0 THEN s[i + 1] ELSE s[Len(s) + i + 1]

\* What the body of a loop gives when it raises the exception error.
RaisedWith(error) == [ok |-> FALSE, error |-> error]

\* A slip of cherry_pick_hitpoint: the hit points up to the ordinal are kept.
cherry_pick_up_to(t, index_hitpoint) ==
    IF "hitpoints" \notin t.attrs THEN RaisedWith("AttributeError")
    ELSE IF ~InRange(t.hitpoints, index_hitpoint) THEN RaisedWith("IndexError")
         ELSE Ok([t EXCEPT !.hitpoints =
                   SubSeq(@, 1, IF index_hitpoint >= 0 THEN index_hitpoint + 1
                                ELSE Len(@) + index_hitpoint + 1)])

\* cherry_pick_hitpoint, the body of the loop (lines 67-73) for one trajectory
\* of the deep copy.  trajectory_data["hitpoints"] is getattr and raises
\* AttributeError on a trajectory without the annotation; the list index
\* raises IndexError; hitpoint_time_stamps is not touched.
cherry_pick_hitpoint_one(t, index_hitpoint) ==
    IF "hitpoints" \notin t.attrs THEN RaisedWith("AttributeError")
    ELSE IF ~InRange(t.hitpoints, index_hitpoint) THEN RaisedWith("IndexError")
         ELSE Ok([t EXCEPT !.hitpoints = <<PyIndex(@, index_hitpoint)>>])

\* cherry_pick_hitpoint, lines 65-75: the loop runs over the trajectories of
\* the deep copy in order and the first exception ends the call.
RECURSIVE cherry_pick_from(_, _, _)
cherry_pick_from(c, i, index_hitpoint) ==
    IF i > Len(c) THEN [raised |-> FALSE, collection |-> c]
    ELSE LET r == cherry_pick_hitpoint_one(c[i], index_hitpoint)
         IN  IF ~r.ok THEN [raised |-> TRUE, error |-> r.error]
             ELSE cherry_pick_from([c EXCEPT ![i] = r.t], i + 1, index_hitpoint)

cherry_pick_hitpoint(c, index_hitpoint) == cherry_pick_from(c, 1, index_hitpoint)

\* remove_further_hitpoints, the body of the loop (lines 28-42) for one
\* trajectory of the deep copy: a non-empty hit point list longer than
\* max_hitpoints is cut to its first max_hitpoints entries, and so is the
\* list of the time stamps.  [l[i] for i in range(m)] is empty for m <= 0
\* and raises IndexError when l has fewer than m entries.
remove_further_hitpoints_one(t, max_hitpoints) ==
    IF "hitpoints" \notin t.attrs THEN RaisedWith("AttributeError")
    ELSE IF t.hitpoints # <<>> /\ max_hitpoints < Len(t.hitpoints)
         THEN IF "hitpoint_time_stamps" \notin t.attrs
              THEN RaisedWith("AttributeError")
              ELSE IF max_hitpoints > Len(t.hitpoint_time_stamps)
                   THEN RaisedWith("IndexError")
                   ELSE Ok([t EXCEPT
                              !.hitpoints = [i \in 1..max_hitpoints |-> @[i]],
                              !.hitpoint_time_stamps =
                                  [i \in 1..max_hitpoints |-> @[i]]])
         ELSE Ok(t)

\* remove_further_hitpoints, lines 26-43: the loop over the deep copy.
RECURSIVE remove_further_from(_, _, _)
remove_further_from(c, i, max_hitpoints) ==
    IF i > Len(c) THEN [raised |-> FALSE, collection |-> c]
    ELSE LET r == remove_further_hitpoints_one(c[i], max_hitpoints)
         IN  IF ~r.ok THEN [raised |-> TRUE, error |-> r.error]
             ELSE remove_further_from([c EXCEPT ![i] = r.t], i + 1, max_hitpoints)

remove_further_hitpoints(c, max_hitpoints) == remove_further_from(c, 1, max_hitpoints)

\* A slip of remove_trajectories_without_hitpoints: the loop starts at the
\* last but one trajectory.
RECURSIVE remove_without_hitpoints_from(_, _)
remove_without_hitpoints_from(c, idx) ==
    IF idx < 0 THEN [raised |-> FALSE, collection |-> c]
    ELSE IF "hitpoints" \notin c[idx + 1].attrs
         THEN [raised |-> TRUE, error |-> "ValueError"]
         ELSE IF c[idx + 1].hitpoints = <<>>
              THEN remove_without_hitpoints_from(delete_item(c, idx), idx - 1)
              ELSE remove_without_hitpoints_from(c, idx - 1)

remove_all_but_last_without_hitpoints(c) ==
    remove_without_hitpoints_from(c, Len(c) - 2)

\* remove_trajectories_without_hitpoints, lines 156-165: idx runs from the
\* last trajectory (0-based) of the deep copy down to the first.
remove_trajectories_without_hitpoints(c) ==
    remove_without_hitpoints_from(c, Len(c) - 1)

\* count_trajectories_without_hitpoints, lines 252-259: the loop in order,
\* trajectory_data["hitpoints"] raises AttributeError without the annotation.
RECURSIVE count_without_hitpoints_from(_, _, _)
count_without_hitpoints_from(c, i, count) ==
    IF i > Len(c) THEN [raised |-> FALSE, count |-> count]
    ELSE IF "hitpoints" \notin c[i].attrs
         THEN [raised |-> TRUE, error |-> "AttributeError"]
         ELSE count_without_hitpoints_from(c, i + 1,
                  IF c[i].hitpoints = <<>> THEN count + 1 ELSE count)

count_trajectories_without_hitpoints(c) == count_without_hitpoints_from(c, 1, 0)

\* sort_hitpoints_by_occurrance, lines 186-198: the k-th list holds the k-th
\* hit point of every trajectory that has one, in the order of the
\* trajectories; trajectory_data["hitpoints"] raises AttributeError without
\* the annotation.
sort_hitpoints_by_occurrance(c) ==
    IF \E i \in 1..Len(c) : "hitpoints" \notin c[i].attrs
    THEN [raised |-> TRUE, error |-> "AttributeError"]
    ELSE LET longest == IF c = <<>> THEN 0
                        ELSE CHOOSE n \in {Len(c[i].hitpoints) : i \in 1..Len(c)} :
                                 \A i \in 1..Len(c) : Len(c[i].hitpoints) <= n
             ordered_hitpoints ==
                 [index \in 1..longest |->
                     LET HasIndex(t) == Len(t.hitpoints) >= index
                         with == SelectSeq(c, HasIndex)
                     IN  [i \in 1..Len(with) |-> with[i].hitpoints[index]]]
         IN  [raised |-> FALSE, error |-> "", values |-> ordered_hitpoints]

\* The sum of the axis-th coordinates of the points, and of their squares.
RECURSIVE SumOfAxis(_, _)
SumOfAxis(points, axis) ==
    IF points = <<>> THEN 0
    ELSE points[1][axis] + SumOfAxis(Tail(points), axis)

RECURSIVE SumOfSquares(_, _)
SumOfSquares(points, axis) ==
    IF points = <<>> THEN 0
    ELSE points[1][axis] * points[1][axis] + SumOfSquares(Tail(points), axis)

\* tuple(np.mean(hitpoints, axis=0)), line 214: per axis the quotient of the
\* sum and the number of points, kept as the pair of the two.
np_mean(points) ==
    [axis \in 1..3 |-> <<SumOfAxis(points, axis), Len(points)>>]

\* tuple(np.std(hitpoints, axis=0)), line 232: per axis the square root of
\* (n * sum of squares - square of the sum) / n^2, kept as the radicand's
\* numerator and denominator.
np_std(points) ==
    [axis \in 1..3 |->
        <<Len(points) * SumOfSquares(points, axis)
              - SumOfAxis(points, axis) * SumOfAxis(points, axis),
          Len(points) * Len(points)>>]

\* mean, lines 210-216: one tuple per list of sort_hitpoints_by_occurrance.
mean(c) ==
    LET ordered_hitpoints == sort_hitpoints_by_occurrance(c)
    IN  IF ordered_hitpoints.raised THEN ordered_hitpoints
        ELSE [raised |-> FALSE, error |-> "",
              values |-> [k \in 1..Len(ordered_hitpoints.values) |->
                             np_mean(ordered_hitpoints.values[k])]]

\* std, lines 228-234.
std(c) ==
    LET ordered_hitpoints == sort_hitpoints_by_occurrance(c)
    IN  IF ordered_hitpoints.raised THEN ordered_hitpoints
        ELSE [raised |-> FALSE, error |-> "",
              values |-> [k \in 1..Len(ordered_hitpoints.values) |->
                             np_std(ordered_hitpoints.values[k])]]

(***************************************************************************)
(* Specification 7: selecting hit points and trajectories of a collection   *)
(***************************************************************************)
MaxSelectTrajectories == 2

MaxSelectHits == 2

\* Ordinals asked for: the first, the default 1, and the last one.
Ordinals == {-1, 0, 1}

\* A trajectory as far as the selection sees it: evaluated with one of the
\* hit point lists, or never evaluated.
SelectTrajectories ==
    {EvaluatedTrajectory(hs) : hs \in SeqsUpTo({<<0, 0, 0>>, <<16, 0, 0>>}, MaxSelectHits)}
        \cup {Unannotated(RecordedTrajectory(<<>>, FALSE))}

InitSelection ==
    /\ collection \in SeqsUpTo(SelectTrajectories, MaxSelectTrajectories)
    /\ stage_input = <<>>
    /\ stage = NoStage
    /\ RecordingIdle
    /\ DetectionIdle
    /\ StorageIdle
    /\ MemoryIdle

\* What the caller keeps of a call: the name, the arguments, whether it raised
\* and which exception, and the number a counting call returned.
SelectionRecord(name, args, result) ==
    [name |-> name, args |-> args, raised |-> result.raised,
     error |-> IF result.raised THEN result.error ELSE "",
     count |-> IF ~result.raised /\ "count" \in DOMAIN result
               THEN result.count ELSE -1]

CherryPickHitpoint ==
    \E index_hitpoint \in Ordinals :
        LET result == cherry_pick_hitpoint(collection, index_hitpoint)
        IN  /\ stage_input' = collection
            /\ stage' = SelectionRecord("cherry_pick_hitpoint",
                                        <<index_hitpoint>>, result)
            /\ collection' = Returned(result)
            /\ UNCHANGED <<recordingVars, detectionVars, memoryVars, storageVars>>

RemoveTrajectoriesWithoutHitpoints ==
    LET result == remove_trajectories_without_hitpoints(collection)
    IN  /\ stage_input' = collection
        /\ stage' = SelectionRecord("remove_trajectories_without_hitpoints",
                                    <<>>, result)
        /\ collection' = Returned(result)
        /\ UNCHANGED <<recordingVars, detectionVars, memoryVars, storageVars>>

CountTrajectoriesWithoutHitpoints ==
    LET result == count_trajectories_without_hitpoints(collection)
    IN  /\ stage_input' = collection
        /\ stage' = SelectionRecord("count_trajectories_without_hitpoints",
                                    <<>>, result)
        /\ collection' = collection
        /\ UNCHANGED <<recordingVars, detectionVars, memoryVars, storageVars>>

\* What the caller keeps of an aggregate call: the list it returned.
AggregateRecord(name, result) ==
    [name |-> name, args |-> <<>>, raised |-> result.raised,
     error |-> result.error,
     values |-> IF result.raised THEN <<>> ELSE result.values]

\* mean(collection)
Mean ==
    LET result == mean(collection)
    IN  /\ stage_input' = collection
        /\ stage' = AggregateRecord("mean", result)
        /\ collection' = collection
        /\ UNCHANGED <<recordingVars, detectionVars, memoryVars, storageVars>>

\* std(collection)
Std ==
    LET result == std(collection)
    IN  /\ stage_input' = collection
        /\ stage' = AggregateRecord("std", result)
        /\ collection' = collection
        /\ UNCHANGED <<recordingVars, detectionVars, memoryVars, storageVars>>

RemoveFurtherHitpoints ==
    \E max_hitpoints \in {0, 1} :
        LET result == remove_further_hitpoints(collection, max_hitpoints)
        IN  /\ stage_input' = collection
            /\ stage' = SelectionRecord("remove_further_hitpoints",
                                        <<max_hitpoints>>, result)
            /\ collection' = Returned(result)
            /\ UNCHANGED <<recordingVars, detectionVars, memoryVars, storageVars>>

NextSelection ==
    \/ CherryPickHitpoint
    \/ RemoveTrajectoriesWithoutHitpoints
    \/ CountTrajectoriesWithoutHitpoints
    \/ Mean
    \/ Std
    \/ RemoveFurtherHitpoints
    \/ AverageCloseHitpoints

SpecSelection == InitSelection /\ [][NextSelection]_vars

(***************************************************************************)
(* C15, C16                                                                *)
(***************************************************************************)
Annotated(c) == \A i \in 1..Len(c) : "hitpoints" \in c[i].attrs

\* C15: on a collection whose trajectories carry hit points,
\* cherry_pick_hitpoint(c, k) with k >= 0 raises IndexError and returns
\* nothing when some trajectory has fewer than k+1 hit points; otherwise it
\* returns as many trajectories, each with exactly one hit point, the one
\* that was at ordinal k.
C15_CherryPickAllOrIndexError ==
    (/\ stage.name = "cherry_pick_hitpoint"
     /\ stage.args[1] >= 0
     /\ Annotated(stage_input)) =>
        LET k == stage.args[1]
            short == \E i \in 1..Len(stage_input) :
                         Len(stage_input[i].hitpoints) < k + 1
        IN  /\ short => (stage.raised /\ stage.error = "IndexError"
                         /\ collection = stage_input)
            /\ ~short =>
                  /\ ~stage.raised
                  /\ Len(collection) = Len(stage_input)
                  /\ \A i \in 1..Len(collection) :
                        collection[i].hitpoints = <<stage_input[i].hitpoints[k + 1]>>

\* A pick of the second hit point from two trajectories that have two, and
\* a refused pick where only the second trajectory is too short.
C15_Witness ==
    /\ stage.name = "cherry_pick_hitpoint"
    /\ stage.args[1] = 1
    /\ Len(stage_input) = 2
    /\ Annotated(stage_input)
    /\ Len(stage_input[1].hitpoints) = 2
    /\ stage_input[1].hitpoints[1] # stage_input[1].hitpoints[2]
    /\ \/ ~stage.raised /\ Len(stage_input[2].hitpoints) = 2
       \/ stage.raised /\ Len(stage_input[2].hitpoints) = 1

\* C16: remove_trajectories_without_hitpoints raises ValueError exactly when
\* some trajectory carries no hitpoints annotation; otherwise it returns the
\* trajectories with a non-empty hit point list, in their order, and the
\* number count_trajectories_without_hitpoints gives for the input plus the
\* number of returned trajectories is the number of input trajectories.
C16_RemoveKeepsTrajectoriesWithHitpoints ==
    stage.name = "remove_trajectories_without_hitpoints" =>
        LET HasHitpoints(t) == t.hitpoints # <<>>
            counted == count_trajectories_without_hitpoints(stage_input)
        IN  /\ stage.raised <=> ~Annotated(stage_input)
            /\ stage.raised => stage.error = "ValueError"
            /\ ~stage.raised =>
                  /\ collection = SelectSeq(stage_input, HasHitpoints)
                  /\ ~counted.raised
                  /\ counted.count + Len(collection) = Len(stage_input)

\* Of two evaluated trajectories the first, without hit points, is removed
\* and the second is returned.
C16_Witness ==
    /\ stage.name = "remove_trajectories_without_hitpoints"
    /\ ~stage.raised
    /\ Len(stage_input) = 2
    /\ stage_input[1].hitpoints = <<>>
    /\ collection = <<stage_input[2]>>

(***************************************************************************)
(* C21                                                                     *)
(***************************************************************************)
\* C21: mean and std called on an empty collection report an error: they do
\* not return (an empty list).
C21_AggregateOfEmptyCollectionRaises ==
    (stage.name \in {"mean", "std"} /\ stage_input = <<>>) => stage.raised

\* C28: whatever sequence of remove_further_hitpoints, cherry_pick_hitpoint
\* and average_close_hitpoints an evaluated collection went through, every
\* trajectory has as many hit point time stamps as hit points.
C28_EveryHitpointKeepsItsTimeStamp ==
    \A i \in 1..Len(collection) :
        "hitpoints" \in collection[i].attrs =>
            Len(collection[i].hitpoints) = Len(collection[i].hitpoint_time_stamps)

(***************************************************************************)
(* Specification 5: a caller working with TrajectoryData objects and        *)
(* TrajectoryCollection objects through its variables t, a and b            *)
(***************************************************************************)
\* Trajectories in one collection.
MaxItems == 1

InitCollections ==
    /\ MemoryIdle
    /\ RecordingIdle
    /\ PipelineIdle
    /\ DetectionIdle
    /\ StorageIdle

\* t = TrajectoryData()
CreateTrajectoryData ==
    /\ FreeIds(trajectories) # {}
    /\ LET o == TakeSmallest(FreeIds(trajectories), 1)[1]
       IN  /\ caller_trajectory' = Some(o)
           /\ trajectories' = Collect([trajectories EXCEPT ![o] = Some(0)],
                                      caller_collections, Some(o))
    /\ caller_collections' = caller_collections
    /\ called' = [name |-> "TrajectoryData"]
    /\ UNCHANGED <<recordingVars, pipelineVars, detectionVars, storageVars>>

\* t.append_sample(...) with a valid id: the object t refers to changes.
AppendSampleTo ==
    /\ caller_trajectory # None
    /\ trajectories[caller_trajectory[1]] = Some(0)
    /\ trajectories' = [trajectories EXCEPT ![caller_trajectory[1]] = Some(1)]
    /\ called' = [name |-> "append_sample"]
    /\ UNCHANGED <<caller_collections, caller_trajectory>>
    /\ UNCHANGED <<recordingVars, pipelineVars, detectionVars, storageVars>>

\* x = TrajectoryCollection()
NewCollection ==
    \E x \in CollVars :
        LET colls == [caller_collections EXCEPT ![x] = Some(<<>>)]
        IN  /\ caller_collections' = colls
            /\ trajectories' = Collect(trajectories, colls, caller_trajectory)
            /\ called' = [name |-> "TrajectoryCollection", target |-> x]
            /\ UNCHANGED caller_trajectory
            /\ UNCHANGED <<recordingVars, pipelineVars, detectionVars, storageVars>>

\* x = TrajectoryCollection([t, ..., t]) with a list of k references to t
ConstructFromList ==
    \E x \in CollVars, k \in 1..MaxItems :
        /\ caller_trajectory # None
        /\ CanCopy(trajectories, [i \in 1..k |-> caller_trajectory[1]])
        /\ LET made == TrajectoryCollection_init(trajectories,
                           [i \in 1..k |-> caller_trajectory[1]])
               colls == [caller_collections EXCEPT ![x] = Some(made.list)]
           IN  /\ caller_collections' = colls
               /\ trajectories' = Collect(made.objects, colls, caller_trajectory)
               /\ called' = [name |-> "TrajectoryCollection(list)", target |-> x,
                             length |-> k]
        /\ UNCHANGED caller_trajectory
        /\ UNCHANGED <<recordingVars, pipelineVars, detectionVars, storageVars>>

\* x = TrajectoryCollection(y)
ConstructFromCollection ==
    \E x \in CollVars, y \in CollVars :
        /\ caller_collections[y] # None
        /\ CanCopy(trajectories, caller_collections[y][1])
        /\ LET made == TrajectoryCollection_init(trajectories, caller_collections[y][1])
               colls == [caller_collections EXCEPT ![x] = Some(made.list)]
           IN  /\ caller_collections' = colls
               /\ trajectories' = Collect(made.objects, colls, caller_trajectory)
               /\ called' = [name |-> "TrajectoryCollection(collection)",
                             target |-> x, source |-> y]
        /\ UNCHANGED caller_trajectory
        /\ UNCHANGED <<recordingVars, pipelineVars, detectionVars, storageVars>>

\* x.append(t), lines 252-253
CollectionAppend ==
    \E x \in CollVars :
        /\ caller_collections[x] # None
        /\ caller_trajectory # None
        /\ Len(caller_collections[x][1]) < MaxItems
        /\ caller_collections' =
               [caller_collections EXCEPT ![x] = Some(Append(@[1], caller_trajectory[1]))]
        /\ called' = [name |-> "append", target |-> x]
        /\ UNCHANGED <<trajectories, caller_trajectory>>
        /\ UNCHANGED <<recordingVars, pipelineVars, detectionVars, storageVars>>

\* x[index] = t, line 244
CollectionSetItem ==
    \E x \in CollVars :
        /\ caller_collections[x] # None
        /\ caller_trajectory # None
        /\ \E index \in 0..(Len(caller_collections[x][1]) - 1) :
             LET colls == [caller_collections EXCEPT
                              ![x] = Some([@[1] EXCEPT ![index + 1] = caller_trajectory[1]])]
             IN  /\ caller_collections' = colls
                 /\ trajectories' = Collect(trajectories, colls, caller_trajectory)
                 /\ called' = [name |-> "__setitem__", target |-> x, index |-> index]
        /\ UNCHANGED caller_trajectory
        /\ UNCHANGED <<recordingVars, pipelineVars, detectionVars, storageVars>>

\* x = y[start:stop]
GetItemSlice ==
    \E x \in CollVars, y \in CollVars, start \in 0..MaxItems :
      \E stop \in start..MaxItems :
        /\ caller_collections[y] # None
        /\ CanCopy(trajectories, PySlice(caller_collections[y][1], start, stop))
        /\ LET made == TrajectoryCollection_getitem(trajectories,
                           caller_collections[y][1], start, stop)
               colls == [caller_collections EXCEPT ![x] = Some(made.list)]
           IN  /\ caller_collections' = colls
               /\ trajectories' = Collect(made.objects, colls, caller_trajectory)
               /\ called' = [name |-> "__getitem__", target |-> x, source |-> y,
                             start |-> start, stop |-> stop]
        /\ UNCHANGED caller_trajectory
        /\ UNCHANGED <<recordingVars, pipelineVars, detectionVars, storageVars>>

\* x = y[index], line 214: the collection of the list [y._collection[index]]
GetItemIndex ==
    \E x \in CollVars, y \in CollVars :
        /\ caller_collections[y] # None
        /\ \E index \in 0..(Len(caller_collections[y][1]) - 1) :
             /\ CanCopy(trajectories, <<caller_collections[y][1][index + 1]>>)
             /\ LET made == TrajectoryCollection_getitem(trajectories,
                                caller_collections[y][1], index, index + 1)
                    colls == [caller_collections EXCEPT ![x] = Some(made.list)]
                IN  /\ caller_collections' = colls
                    /\ trajectories' = Collect(made.objects, colls, caller_trajectory)
                    /\ called' = [name |-> "__getitem__", target |-> x, source |-> y,
                                  start |-> index, stop |-> index + 1]
        /\ UNCHANGED caller_trajectory
        /\ UNCHANGED <<recordingVars, pipelineVars, detectionVars, storageVars>>

\* t = y.get_item(index), line 276
GetItem ==
    \E y \in CollVars :
        /\ caller_collections[y] # None
        /\ \E index \in 0..(Len(caller_collections[y][1]) - 1) :
             /\ caller_trajectory' = Some(caller_collections[y][1][index + 1])
             /\ trajectories' = Collect(trajectories, caller_collections,
                                        Some(caller_collections[y][1][index + 1]))
             /\ called' = [name |-> "get_item", source |-> y, index |-> index]
        /\ UNCHANGED caller_collections
        /\ UNCHANGED <<recordingVars, pipelineVars, detectionVars, storageVars>>

\* for t in y: pass  -- line 227; t is left at the last trajectory of y
Iterate ==
    \E y \in CollVars :
        /\ caller_collections[y] # None
        /\ caller_collections[y][1] # <<>>
        /\ LET last == caller_collections[y][1][Len(caller_collections[y][1])]
           IN  /\ caller_trajectory' = Some(last)
               /\ trajectories' = Collect(trajectories, caller_collections, Some(last))
        /\ called' = [name |-> "__iter__", source |-> y]
        /\ UNCHANGED caller_collections
        /\ UNCHANGED <<recordingVars, pipelineVars, detectionVars, storageVars>>

\* x = y.deepcopy()
Deepcopy ==
    \E x \in CollVars, y \in CollVars :
        /\ caller_collections[y] # None
        /\ CanDeepcopy(trajectories, caller_collections[y][1])
        /\ LET made == TrajectoryCollection_deepcopy(trajectories,
                           caller_collections[y][1])
               colls == [caller_collections EXCEPT ![x] = Some(made.list)]
           IN  /\ caller_collections' = colls
               /\ trajectories' = Collect(made.objects, colls, caller_trajectory)
               /\ called' = [name |-> "deepcopy", target |-> x, source |-> y]
        /\ UNCHANGED caller_trajectory
        /\ UNCHANGED <<recordingVars, pipelineVars, detectionVars, storageVars>>

\* x.delete_item(index), line 292
DeleteItem ==
    \E x \in CollVars :
        /\ caller_collections[x] # None
        /\ \E index \in 0..(Len(caller_collections[x][1]) - 1) :
             LET colls == [caller_collections EXCEPT ![x] = Some(DelAt(@[1], index))]
             IN  /\ caller_collections' = colls
                 /\ trajectories' = Collect(trajectories, colls, caller_trajectory)
                 /\ called' = [name |-> "delete_item", target |-> x, index |-> index]
        /\ UNCHANGED caller_trajectory
        /\ UNCHANGED <<recordingVars, pipelineVars, detectionVars, storageVars>>

NextCollections ==
    \/ CreateTrajectoryData
    \/ AppendSampleTo
    \/ NewCollection
    \/ ConstructFromList
    \/ ConstructFromCollection
    \/ CollectionAppend
    \/ CollectionSetItem
    \/ GetItemSlice
    \/ GetItemIndex
    \/ GetItem
    \/ Iterate
    \/ Deepcopy
    \/ DeleteItem

SpecCollections == InitCollections /\ [][NextCollections]_vars

(***************************************************************************)
(* C7, C8                                                                  *)
(***************************************************************************)
\* The objects stored in two collections at once.
Shared(colls) ==
    {o \in ObjIds : \E x \in CollVars, y \in CollVars :
                       x # y /\ o \in Stored(colls, x) \cap Stored(colls, y)}

\* The contents of the trajectories of the list items, in order.
ContentsOf(objs, items) == [i \in 1..Len(items) |-> objs[items[i]]]

\* C7 as stated: no TrajectoryData object is stored in two live collections.
C7_NoTrajectoryInTwoCollections == Shared(caller_collections) = {}

\* C7, amended: no call but append and __setitem__ makes a trajectory shared
\* between two collections (constructing from a list or a collection,
\* slicing, indexing and deepcopy store fresh copies only); append and
\* __setitem__ store the very object the caller passes.
C7_OnlyAppendAndSetItemShare ==
    [][ /\ called'.name \notin {"append", "__setitem__"}
           => Shared(caller_collections') \subseteq Shared(caller_collections)
        /\ called'.name = "append"
           => caller_collections'[called'.target][1] =
                  Append(caller_collections[called'.target][1], caller_trajectory[1])
        /\ called'.name = "__setitem__"
           => caller_collections'[called'.target][1][called'.index + 1] =
                  caller_trajectory[1]
      ]_vars

\* A trajectory was appended to a collection while another collection stores
\* it: the two collections share it.
C7_Witness ==
    /\ called.name = "append"
    /\ caller_trajectory # None
    /\ \A x \in CollVars : caller_trajectory[1] \in Stored(caller_collections, x)

\* C8 as stated: what a read hands out is never an object stored in the
\* collection read, for get_item and iteration as for indexing, slicing and
\* deepcopy.
C8_EveryReadHandsOutCopies ==
    /\ called.name \in {"get_item", "__iter__"}
       => caller_trajectory[1] \notin Stored(caller_collections, called.source)
    /\ (called.name \in {"__getitem__", "deepcopy"} /\ called.target # called.source)
       => Stored(caller_collections, called.target)
              \cap Stored(caller_collections, called.source) = {}

\* C8, amended: integer indexing, slicing and deepcopy hand out a collection
\* of new objects (no object that existed before the read, so writing to one
\* side never shows on the other) with the contents the stored trajectories
\* have at the read; get_item and iteration hand out the stored objects
\* themselves.
C8_IndexSliceDeepcopyHandOutCopies ==
    [][ /\ called'.name \in {"__getitem__", "deepcopy"}
           => LET stored == caller_collections[called'.source][1]
                  read == IF called'.name = "deepcopy" THEN stored
                          ELSE PySlice(stored, called'.start, called'.stop)
                  handed == caller_collections'[called'.target][1]
              IN  /\ ContentsOf(trajectories', handed) = ContentsOf(trajectories, read)
                  /\ \A i \in 1..Len(handed) : trajectories[handed[i]] = None
        /\ called'.name = "get_item"
           => caller_trajectory' =
                  Some(caller_collections[called'.source][1][called'.index + 1])
        /\ called'.name = "__iter__"
           => caller_trajectory' =
                  Some(caller_collections[called'.source][1]
                           [Len(caller_collections[called'.source][1])])
      ]_vars

\* A slice or an index read handed out a non-empty collection, held next to
\* the collection read.
C8_Witness ==
    /\ called.name = "__getitem__"
    /\ called.target # called.source
    /\ Stored(caller_collections, called.target) # {}

(***************************************************************************)
(* The Collection -> Collection stages, as they treat objects.  Every stage *)
(* first copies the collection it is given and from then on works on the    *)
(* copy alone.  What a stage computes is modelled in the specifications     *)
(* above; here the body may write any content to the trajectories it        *)
(* visits, remove any items, and raise at any point.                         *)
(***************************************************************************)
\* `for trajectory_data in copy: <write trajectory_data>`: the objects after
\* the i-th trajectory of the list got the content edits[i], for every i in
\* turn.
RECURSIVE EditInTurn(_, _, _, _)
EditInTurn(objs, items, edits, i) ==
    IF i > Len(items) THEN objs
    ELSE EditInTurn([objs EXCEPT ![items[i]] = Some(edits[i])], items, edits, i + 1)

\* The subsequence of items at the positions of keep.
Kept(items, keep) ==
    LET F[i \in 0..Len(items)] ==
            IF i = 0 THEN <<>>
            ELSE IF i \in keep THEN Append(F[i - 1], items[i]) ELSE F[i - 1]
    IN  F[Len(items)]

\* x = stage(y) for the stages that copy with .deepcopy() and write to the
\* trajectories of the copy in a for loop: filter_volatile_samples,
\* filter_samples_outside_region, filter_samples_after_first_rebound,
\* filter_samples_after_time_stamp, smooth_samples, move_origin,
\* rotate_coordinate_system, change_time_stamps, reset_time_stamps,
\* remove_further_hitpoints, cherry_pick_hitpoint, average_close_hitpoints.
SampleStage ==
    \E x \in CollVars, y \in CollVars, raises \in BOOLEAN :
        /\ caller_collections[y] # None
        /\ CanDeepcopy(trajectories, caller_collections[y][1])
        /\ LET copy == TrajectoryCollection_deepcopy(trajectories,
                           caller_collections[y][1])
           IN  \E edits \in [1..Len(copy.list) -> Contents] :
                 LET objs == EditInTurn(copy.objects, copy.list, edits, 1)
                     colls == IF raises THEN caller_collections
                              ELSE [caller_collections EXCEPT ![x] = Some(copy.list)]
                 IN  /\ caller_collections' = colls
                     /\ trajectories' = Collect(objs, colls, caller_trajectory)
        /\ called' = [name |-> "sample stage", target |-> x, source |-> y,
                      raised |-> raises]
        /\ UNCHANGED caller_trajectory
        /\ UNCHANGED <<recordingVars, pipelineVars, detectionVars, storageVars>>

\* x = stage(y) for the stages that copy with .deepcopy() and delete items of
\* the copy: remove_patchy_trajectories, remove_short_trajectories,
\* remove_trajectories_without_hitpoints.
RemovalStage ==
    \E x \in CollVars, y \in CollVars, raises \in BOOLEAN :
        /\ caller_collections[y] # None
        /\ CanDeepcopy(trajectories, caller_collections[y][1])
        /\ LET copy == TrajectoryCollection_deepcopy(trajectories,
                           caller_collections[y][1])
           IN  \E keep \in SUBSET (1..Len(copy.list)) :
                 LET colls == IF raises THEN caller_collections
                              ELSE [caller_collections EXCEPT
                                       ![x] = Some(Kept(copy.list, keep))]
                 IN  /\ caller_collections' = colls
                     /\ trajectories' = Collect(copy.objects, colls, caller_trajectory)
        /\ called' = [name |-> "removal stage", target |-> x, source |-> y,
                      raised |-> raises]
        /\ UNCHANGED caller_trajectory
        /\ UNCHANGED <<recordingVars, pipelineVars, detectionVars, storageVars>>

\* x = detector.evaluate_hitpoints(y): the copy is TrajectoryCollection(y),
\* line 148, and the loop sets attributes on its trajectories.
EvaluateStage ==
    \E x \in CollVars, y \in CollVars, raises \in BOOLEAN :
        /\ caller_collections[y] # None
        /\ CanCopy(trajectories, caller_collections[y][1])
        /\ LET copy == TrajectoryCollection_init(trajectories, caller_collections[y][1])
           IN  \E edits \in [1..Len(copy.list) -> Contents] :
                 LET objs == EditInTurn(copy.objects, copy.list, edits, 1)
                     colls == IF raises THEN caller_collections
                              ELSE [caller_collections EXCEPT ![x] = Some(copy.list)]
                 IN  /\ caller_collections' = colls
                     /\ trajectories' = Collect(objs, colls, caller_trajectory)
        /\ called' = [name |-> "evaluate_hitpoints", target |-> x, source |-> y,
                      raised |-> raises]
        /\ UNCHANGED caller_trajectory
        /\ UNCHANGED <<recordingVars, pipelineVars, detectionVars, storageVars>>

\* detector.evaluate_hitpoints_from_trajectory(t), lines 171-192: the
\* detector works on the object it is given (line 174), writes the axis and
\* then the other annotations to it, and returns this object (line 192);
\* the object is written to also when a later step raises.
EvaluateFromTrajectory ==
    \E raises \in BOOLEAN :
        /\ caller_trajectory # None
        /\ LET trajectory_data == caller_trajectory[1]
           IN  /\ trajectories' = [trajectories EXCEPT ![trajectory_data] = Some(1)]
               /\ called' = [name |-> "evaluate_hitpoints_from_trajectory",
                             argument |-> trajectory_data,
                             returned |-> IF raises THEN None
                                          ELSE Some(trajectory_data),
                             raised |-> raises]
        /\ UNCHANGED <<caller_collections, caller_trajectory>>
        /\ UNCHANGED <<recordingVars, pipelineVars, detectionVars, storageVars>>

(***************************************************************************)
(* Specification 6: a caller handing its collections to stages              *)
(***************************************************************************)
\* The caller holds in a a collection of trajectories it built; b holds
\* nothing, or a collection sharing a's trajectories (built with append), and
\* t refers to nothing or to a trajectory of a.
InitStages ==
    /\ \E n \in 0..MaxItems, content \in [1..MaxItems -> Contents],
          alias \in BOOLEAN, shared \in BOOLEAN, held \in BOOLEAN :
         LET items == [i \in 1..n |-> IF alias THEN 1 ELSE i]
         IN  /\ (held \/ alias) => n > 0
             /\ \A i \in (n + 1)..MaxItems : content[i] = 0
             /\ alias => \A i \in 2..MaxItems : content[i] = 0
             /\ caller_collections =
                    [x \in CollVars |->
                        IF x = "a" \/ shared THEN Some(items) ELSE None]
             /\ caller_trajectory = IF held THEN Some(1) ELSE None
             /\ trajectories =
                    [o \in ObjIds |->
                        IF o \in Range(items) THEN Some(content[o]) ELSE None]
    /\ called = [name |-> "none"]
    /\ RecordingIdle
    /\ PipelineIdle
    /\ DetectionIdle
    /\ StorageIdle

NextStages ==
    \/ SampleStage
    \/ RemovalStage
    \/ EvaluateStage
    \/ EvaluateFromTrajectory

SpecStages == InitStages /\ [][NextStages]_vars

(***************************************************************************)
(* C3                                                                      *)
(***************************************************************************)
StageNames == {"sample stage", "removal stage", "evaluate_hitpoints"}

\* C3: a stage call leaves the collection it is given as it was: the same
\* list of the same objects, each with the content it had, whether the stage
\* returns or raises.  (When the caller assigns the result to the variable
\* that held the input, the input's trajectories that are still referenced
\* keep their content.)
C3_StagesLeaveInputUnchanged ==
    [][ called'.name \in StageNames
        => /\ (called'.raised \/ called'.target # called'.source)
              => /\ caller_collections'[called'.source] =
                        caller_collections[called'.source]
                 /\ \A o \in Stored(caller_collections, called'.source) :
                        trajectories'[o] = trajectories[o]
           /\ \A o \in Stored(caller_collections, called'.source) :
                  trajectories'[o] \in {None, trajectories[o]}
      ]_vars

\* A stage returned a collection whose trajectories differ in content from
\* those of the non-empty collection it was given, which the caller still
\* holds.
C3_Witness ==
    /\ called.name \in StageNames
    /\ ~called.raised
    /\ called.target # called.source
    /\ Stored(caller_collections, called.source) # {}
    /\ ContentsOf(trajectories, caller_collections[called.target][1])
           # ContentsOf(trajectories, caller_collections[called.source][1])

(***************************************************************************)
(* C27                                                                     *)
(***************************************************************************)
\* C27: evaluate_hitpoints_from_trajectory leaves the trajectory object it is
\* given with the content it had, and the trajectory it returns is another
\* object.
C27_EvaluateFromTrajectoryLeavesArgument ==
    [][ called'.name = "evaluate_hitpoints_from_trajectory"
        => /\ trajectories'[called'.argument] = trajectories[called'.argument]
           /\ ~called'.raised => called'.returned # Some(called'.argument)
      ]_vars

(***************************************************************************)
(* export_tools.py                                                          *)
(*                                                                         *)
(* A string is the sequence of the code points of its characters.  An HDF5  *)
(* group is a function from the names of its members to their content, a    *)
(* directory a function from the names of its files to their content.       *)
(***************************************************************************)
\* str(i) for an integer i >= 0: its decimal digits, '0' being code point 48.
RECURSIVE str(_)
str(i) == IF i < 10 THEN <<48 + i>> ELSE str(i \div 10) \o <<48 + (i % 10)>>

\* int(s) for a string of decimal digits.
RECURSIVE int(_)
int(s) ==
    IF Len(s) = 1 THEN s[1] - 48
    ELSE 10 * int(SubSeq(s, 1, Len(s) - 1)) + (s[Len(s)] - 48)

\* a < b for two strings, as Python (and the name index of an HDF5 group)
\* compares them: by the first code point that differs, a proper prefix first.
RECURSIVE StringLess(_, _)
StringLess(a, b) ==
    IF b = <<>> THEN FALSE
    ELSE IF a = <<>> THEN TRUE
         ELSE IF a[1] # b[1] THEN a[1] < b[1]
              ELSE StringLess(Tail(a), Tail(b))

\* The strings of the set names in ascending order: sorted(...) of paths, and
\* the order in which h5py lists the members of a group.
RECURSIVE SortedNames(_)
SortedNames(names) ==
    IF names = {} THEN <<>>
    ELSE LET first == CHOOSE a \in names : \A b \in names \ {a} : StringLess(a, b)
         IN  <<first>> \o SortedNames(names \ {first})

Maximum(S) == CHOOSE m \in S : \A n \in S : n <= m

\* A TrajectoryData() as the import creates it, with the channels read.
ImportedTrajectory(launch_param, time_stamps, positions, velocities) ==
    [start_time |-> None, time_stamps |-> time_stamps, positions |-> positions,
     velocities |-> velocities, launch_param |-> launch_param, kind |-> "list"]

\* The four datasets export_to_hdf5 creates in the group of one trajectory,
\* lines 155-162; `"launch_param" in sample` and `"velocities" in sample` are
\* hasattr and hold for every TrajectoryData.
Hdf5Datasets(sample) ==
    [launch_param |-> sample.launch_param, time_stamps |-> sample.time_stamps,
     positions |-> sample.positions, velocities |-> sample.velocities]

\* export_to_hdf5, lines 131-164, on the file (None while it does not exist):
\* the file is opened for appending and the groups are numbered on from the
\* largest number present.
export_to_hdf5(trajectory_collection, file) ==
    IF trajectory_collection = <<>>
    THEN [raised |-> TRUE, error |-> "IndexError", file |-> file]
    ELSE LET dataset == IF file = None THEN <<>> ELSE file[1]
             current_iter ==
                 IF DOMAIN dataset # {}
                 THEN Maximum({int(i) : i \in DOMAIN dataset}) + 1 ELSE 0
             created == {str(current_iter + j - 1) : j \in 1..Len(trajectory_collection)}
             SampleOf(name) ==
                 trajectory_collection[int(name) - current_iter + 1]
         IN  [raised |-> FALSE, error |-> "",
              file |-> Some([name \in DOMAIN dataset \cup created |->
                               IF name \in DOMAIN dataset /\ dataset # <<>>
                               THEN dataset[name]
                               ELSE Hdf5Datasets(SampleOf(name))])]

\* import_all_from_hdf5, lines 79-107: one trajectory per member of the group,
\* in the order file[group].keys() lists them.
import_all_from_hdf5(file) ==
    IF file = None THEN [raised |-> TRUE, error |-> "FileNotFoundError"]
    ELSE LET keys == SortedNames(DOMAIN file[1])
         IN  [raised |-> FALSE, error |-> "",
              collection |->
                  [k \in 1..Len(keys) |->
                      LET stored == file[1][keys[k]]
                      IN  ImportedTrajectory(stored.launch_param, stored.time_stamps,
                                             stored.positions, stored.velocities)]]

\* ".csv"
DotCsv == <<46, 99, 115, 118>>

\* The prefix of the file names, "ball_trajectory_".
Prefix == <<98, 97, 108, 108, 95, 116, 114, 97, 106, 101, 99, 116, 111, 114, 121, 95>>

\* The samples below which export_to_csv writes no launch_param column.
MinCsvSamples == 5

\* The table export_to_csv writes for one trajectory, lines 290-315, or the
\* exception of pandas: a column is a list of cells, a cell Some(v) or None
\* (the empty cell, read back as nan); every column must have the length of
\* the first one.  The launch_param column is written for a trajectory of at
\* least five samples only.
CsvTable(sample) ==
    LET trajectory_length == Len(sample.positions)
        with_param == trajectory_length >= MinCsvSamples
        launch_param ==
            [k \in 1..(IF Len(sample.launch_param) > trajectory_length
                       THEN Len(sample.launch_param) ELSE trajectory_length) |->
                IF k <= Len(sample.launch_param)
                THEN Some(sample.launch_param[k]) ELSE None]
        rows == IF with_param THEN Len(launch_param) ELSE Len(sample.time_stamps)
    IN  IF \/ Len(sample.time_stamps) # rows
           \/ trajectory_length # rows
           \/ Len(sample.velocities) # rows
        THEN RaisedWith("ValueError")
        ELSE Ok([launch_param |-> IF with_param THEN Some(launch_param) ELSE None,
                 time_stamps |-> sample.time_stamps,
                 positions |-> sample.positions,
                 velocities |-> sample.velocities])

\* export_to_csv, lines 275-315, into the directory: file number index holds
\* the index-th trajectory (0-based); the files written before an exception
\* stay.
RECURSIVE export_to_csv_from(_, _, _)
export_to_csv_from(trajectory_collection, index, directory) ==
    IF index >= Len(trajectory_collection)
    THEN [raised |-> FALSE, error |-> "", directory |-> directory]
    ELSE LET file_name == Prefix \o str(index) \o DotCsv
             df == CsvTable(trajectory_collection[index + 1])
         IN  IF ~df.ok
             THEN [raised |-> TRUE, error |-> df.error, directory |-> directory]
             ELSE export_to_csv_from(
                      trajectory_collection, index + 1,
                      [name \in DOMAIN directory \cup {file_name} |->
                          IF name = file_name THEN df.t ELSE directory[name]])

export_to_csv(trajectory_collection, directory) ==
    IF trajectory_collection = <<>>
    THEN [raised |-> TRUE, error |-> "IndexError", directory |-> directory]
    ELSE export_to_csv_from(trajectory_collection, 0, directory)

\* import_from_csv, lines 185-216: df["launch_param"] raises KeyError when
\* the file has no such column; the empty cells of the column are left out.
import_from_csv(df) ==
    IF df.launch_param = None THEN RaisedWith("KeyError")
    ELSE LET column == df.launch_param[1]
             IsValue(cell) == cell # None
             values == SelectSeq(column, IsValue)
         IN  Ok(ImportedTrajectory([k \in 1..Len(values) |-> values[k][1]],
                                   df.time_stamps, df.positions, df.velocities))

\* import_all_from_csv, lines 234-250: the files in the order of
\* sorted(glob("*.csv")).
import_all_from_csv(directory) ==
    LET file_paths == SortedNames(DOMAIN directory)
        read == [k \in 1..Len(file_paths) |-> import_from_csv(directory[file_paths[k]])]
    IN  IF \E k \in 1..Len(read) : ~read[k].ok
        THEN [raised |-> TRUE,
              error |-> read[CHOOSE k \in 1..Len(read) :
                                ~read[k].ok /\ \A j \in 1..(k - 1) : read[j].ok].error]
        ELSE [raised |-> FALSE, error |-> "",
              collection |-> [k \in 1..Len(read) |-> read[k].t]]

\* export_data, lines 344-362, on the file and the directory the export path
\* leads to: what the call raises, and the file and the directory after it.
export_data(trajectory_collection, export_format, file, directory) ==
    IF trajectory_collection = <<>>
    THEN [raised |-> TRUE, error |-> "IndexError", file |-> file,
          directory |-> directory]
    ELSE IF export_format = "hdf5"
         THEN LET r == export_to_hdf5(trajectory_collection, file)
              IN  [raised |-> r.raised, error |-> r.error, file |-> r.file,
                   directory |-> directory]
         ELSE IF export_format = "csv"
              THEN LET r == export_to_csv(trajectory_collection, directory)
                   IN  [raised |-> r.raised, error |-> r.error, file |-> file,
                        directory |-> r.directory]
              ELSE [raised |-> TRUE, error |-> "ValueError", file |-> file,
                    directory |-> directory]

(***************************************************************************)
(* Specification 8: exporting a collection into a new HDF5 file or into an  *)
(* empty directory of CSV files, and importing everything back              *)
(***************************************************************************)
MaxExported == 11

\* Samples per trajectory of the exported collection.
SampleCounts == {1, 5}

\* The i-th (0-based) trajectory of the collection the caller starts with:
\* its launch parameters and positions tell which one it is.
ExportedTrajectory(i, samples) ==
    [start_time |-> Some(0),
     time_stamps |-> [k \in 1..samples |-> k - 1],
     positions |-> [k \in 1..samples |-> <<i, 0, 100 - k>>],
     velocities |-> [k \in 1..samples |-> <<0, 0, -1>>],
     launch_param |-> <<i, 1>>,
     kind |-> "list"]

InitExport ==
    /\ \E n \in 0..MaxExported, samples \in SampleCounts :
          collection = [k \in 1..n |-> ExportedTrajectory(k - 1, samples)]
    /\ stage_input = <<>>
    /\ stage = NoStage
    /\ StorageIdle
    /\ RecordingIdle
    /\ DetectionIdle
    /\ MemoryIdle

ExportRecord(name, result) ==
    [name |-> name, raised |-> result.raised, error |-> result.error]

\* export_to_hdf5(collection, directory_path, prefix) into a file that does
\* not exist yet.
ExportToHdf5 ==
    /\ storage.hdf5 = None
    /\ LET result == export_to_hdf5(collection, storage.hdf5)
       IN  /\ storage' = [storage EXCEPT
                            !.hdf5 = result.file,
                            !.exported_hdf5 = IF result.raised THEN @
                                              ELSE Some(collection)]
           /\ stage_input' = collection
           /\ stage' = ExportRecord("export_to_hdf5", result)
           /\ collection' = collection
           /\ UNCHANGED <<recordingVars, detectionVars, memoryVars>>

\* collection = import_all_from_hdf5(file_path=...)
ImportAllFromHdf5 ==
    LET result == import_all_from_hdf5(storage.hdf5)
    IN  /\ stage_input' = collection
        /\ stage' = ExportRecord("import_all_from_hdf5", result)
        /\ collection' = Returned(result)
        /\ UNCHANGED <<recordingVars, detectionVars, memoryVars, storageVars>>

\* export_to_csv(collection, directory_path) into an empty directory.
ExportToCsv ==
    /\ storage.csv = <<>>
    /\ LET result == export_to_csv(collection, storage.csv)
       IN  /\ storage' = [storage EXCEPT
                            !.csv = result.directory,
                            !.exported_csv = IF result.raised THEN @
                                             ELSE Some(collection)]
           /\ stage_input' = collection
           /\ stage' = ExportRecord("export_to_csv", result)
           /\ collection' = collection
           /\ UNCHANGED <<recordingVars, detectionVars, memoryVars>>

\* collection = import_all_from_csv(directory_path)
ImportAllFromCsv ==
    LET result == import_all_from_csv(storage.csv)
    IN  /\ stage_input' = collection
        /\ stage' = ExportRecord("import_all_from_csv", result)
        /\ collection' = Returned(result)
        /\ UNCHANGED <<recordingVars, detectionVars, memoryVars, storageVars>>

\* The export formats asked for: the two supported and one that is not.
ExportFormats == {"hdf5", "csv", "json"}

\* export_data(collection, export_format, export_path, "ball_trajectory_")
\* into a path that holds no file of that format yet.
ExportData ==
    \E export_format \in ExportFormats :
        /\ export_format = "hdf5" => storage.hdf5 = None
        /\ export_format = "csv" => storage.csv = <<>>
        /\ LET result == export_data(collection, export_format,
                                     storage.hdf5, storage.csv)
           IN  /\ storage' = [storage EXCEPT
                    !.hdf5 = result.file,
                    !.csv = result.directory,
                    !.exported_hdf5 =
                        IF ~result.raised /\ export_format = "hdf5"
                        THEN Some(collection) ELSE @,
                    !.exported_csv =
                        IF ~result.raised /\ export_format = "csv"
                        THEN Some(collection) ELSE @]
               /\ stage_input' = collection
               /\ stage' = ExportRecord("export_data", result)
               /\ collection' = collection
               /\ UNCHANGED <<recordingVars, detectionVars, memoryVars>>

NextExport ==
    \/ ExportToHdf5
    \/ ImportAllFromHdf5
    \/ ExportToCsv
    \/ ImportAllFromCsv
    \/ ExportData

SpecExport == InitExport /\ [][NextExport]_vars

(***************************************************************************)
(* C19                                                                     *)
(***************************************************************************)
\* The collection imported has the trajectories of the collection exported,
\* in the same order, with the same four channels.
SameTrajectories(imported, exported) ==
    /\ Len(imported) = Len(exported)
    /\ \A i \in 1..Len(exported) :
          /\ imported[i].positions = exported[i].positions
          /\ imported[i].time_stamps = exported[i].time_stamps
          /\ imported[i].velocities = exported[i].velocities
          /\ imported[i].launch_param = exported[i].launch_param

\* C19: importing everything from the HDF5 file, or from the CSV directory,
\* that a collection of n >= 1 trajectories (of at least five samples each)
\* was exported to returns the n trajectories in the same order with the
\* same positions, time stamps, velocities and launch parameters.
C19_ExportImportRoundTrip ==
    /\ (stage.name = "import_all_from_hdf5" /\ storage.exported_hdf5 # None) =>
          /\ ~stage.raised
          /\ SameTrajectories(collection, storage.exported_hdf5[1])
    /\ (/\ stage.name = "import_all_from_csv"
        /\ storage.exported_csv # None
        /\ \A i \in 1..Len(storage.exported_csv[1]) :
              Len(storage.exported_csv[1][i].positions) >= MinCsvSamples) =>
          /\ ~stage.raised
          /\ SameTrajectories(collection, storage.exported_csv[1])

(***************************************************************************)
(* transform.py: change_time_stamps                                         *)
(*                                                                         *)
(* A time stamp after the change is the product i * 10^exponent, kept as    *)
(* the pair of i and the exponent (0 has the exponent 0).                   *)
(***************************************************************************)
\* The table unit_factor, lines 140-145, by the exponents of its powers of 10.
unit_factor ==
    [seconds |-> -9, milliseconds |-> -6, microseconds |-> -3, nanoseconds |-> 0]

\* i * 10^exponent
Scaled(i, exponent) ==
    [mantissa |-> i, exponent |-> IF i = 0 THEN 0 ELSE exponent]

\* change_time_stamps, the body of the loop (lines 147-151) for one
\* trajectory of the deep copy: unit_factor[unit] is looked up for every time
\* stamp and raises KeyError for a unit the table does not have.
change_time_stamps_one(t, unit) ==
    IF t.time_stamps = <<>> THEN Ok(t)
    ELSE IF unit \notin DOMAIN unit_factor THEN RaisedWith("KeyError")
         ELSE Ok([t EXCEPT !.time_stamps =
                     [k \in 1..Len(@) |-> Scaled(@[k], unit_factor[unit])]])

change_time_stamps(c, unit) ==
    MapTrajectories([i \in 1..Len(c) |-> change_time_stamps_one(c[i], unit)])

(***************************************************************************)
(* Specification 9: changing the time stamps of a recorded collection       *)
(***************************************************************************)
\* The units asked for: the four of the table and one it does not have.
Units == {"seconds", "milliseconds", "microseconds", "nanoseconds", "minutes"}

InitTransform ==
    /\ \E lens \in TrajectoryLengths, with_velocities \in BOOLEAN :
         \E steps \in [1..SumSeq(lens) -> SampleSteps] :
            collection = RecordedCollection(lens, steps, with_velocities)
    /\ stage_input = <<>>
    /\ stage = NoStage
    /\ StorageIdle
    /\ RecordingIdle
    /\ DetectionIdle
    /\ MemoryIdle

\* collection = change_time_stamps(collection, unit), once on the recorded
\* collection.
ChangeTimeStamps ==
    /\ stage = NoStage
    /\ \E unit \in Units :
        LET result == change_time_stamps(collection, unit)
        IN  /\ stage_input' = collection
            /\ stage' = StageRecord("change_time_stamps", <<unit>>, result)
            /\ collection' = Returned(result)
            /\ UNCHANGED <<recordingVars, detectionVars, memoryVars, storageVars>>

NextTransform == ChangeTimeStamps

SpecTransform == InitTransform /\ [][NextTransform]_vars

(***************************************************************************)
(* C20                                                                     *)
(***************************************************************************)
\* The factors that convert a value in the unit into seconds, by their
\* exponents: 1, 1e-3, 1e-6, 1e-9.
ToSeconds ==
    [seconds |-> 0, milliseconds |-> -3, microseconds |-> -6, nanoseconds |-> -9]

\* C20: change_time_stamps(c, unit) multiplies every time stamp by the factor
\* that converts the unit into seconds and leaves the number and order of the
\* trajectories and of the time stamps, the positions and the velocities as
\* they are.
C20_TimeStampsConvertedToSeconds ==
    (/\ stage.name = "change_time_stamps"
     /\ stage.args[1] \in DOMAIN ToSeconds) =>
        /\ ~stage.raised
        /\ Len(collection) = Len(stage_input)
        /\ \A i \in 1..Len(collection) :
              /\ collection[i].time_stamps =
                     [k \in 1..Len(stage_input[i].time_stamps) |->
                         Scaled(stage_input[i].time_stamps[k],
                                ToSeconds[stage.args[1]])]
              /\ collection[i].positions = stage_input[i].positions
              /\ collection[i].velocities = stage_input[i].velocities

====
